---- MODULE Spec2Model ----
(***************************************************************************)
(* LeLang: the terminal UI state machine (main.go, model.Update), the      *)
(* Recorder (Start/Stop over the done/finished channels) and the Piper     *)
(* voice (Speak) as they run concurrently: one UI event loop, and one      *)
(* background task per command returned by Update.                         *)
(***************************************************************************)
EXTENDS Integers, Sequences, FiniteSets, TLC

\* ---------------------------------------------------------------- bounds
\* Recorder.Start commands the UI may issue in one run of Spec.
MaxStarts == 2
\* Recorder.Start commands the UI may issue in one run of SpecTurn.
MaxTurnStarts == 1
\* DownloadModel rounds in one run of Spec and SpecTurn.
MaxDownloads == 1
\* DownloadModel rounds in one run of SpecReply.
MaxRounds == 2
\* Transcriptions received in one run of SpecNav.
MaxEntries == 1
\* Transcriptions received in one run of SpecReply.
MaxReplies == 1
\* Bytes captured by one recording in SpecWav.
MaxRaw == 4
\* WordsStore.Add calls in one run of SpecWords.
MaxAdds == 3
\* Recorder.Start calls, one after the other, in one run of SpecCycle.
MaxCycles == 2
\* Bytes in a playback block, and whole blocks the subprocess writes, in SpecPlay.
BlockLen == 2
MaxBlocks == 2
\* The count of silence callbacks is kept up to this number.
MaxSilence == 5
\* FetchVoices is called on its own at most MaxFetches times, DownloadVoice at
\* most MaxVoiceCalls times.
MaxFetches == 2
MaxVoiceCalls == 2

\* time.Second, in clock ticks: the debounce window of ctrl+b.
Second == 1

VARIABLES
    status,         \* model.status
    content,        \* model.content, a sequence of characters
    focusRow,       \* model.focusRow
    focusWord,      \* model.focusWord
    cancelSpeak,    \* model.cancelSpeak: 0 is nil, else the Speak call whose context it cancels
    uiPc,           \* where the event loop is: idle, inside Recorder.Stop, quit or panicked
    recording,      \* Recorder.recording
    Content,        \* Recorder.Content: 0 is nil, else the Start call that stored its WAV
    sinceStopped,   \* time.Since(Recorder.Stopped), capped at Second
    chanGen,        \* which done/finished channel pair the Recorder fields hold
    finishedClosed, \* the finished channels that have been closed
    starts,         \* the Recorder.Start calls
    transcribes,    \* the transcription commands
    llms,           \* the GetLlmCompletion commands
    speaks,         \* the Speak commands
    downloads,      \* the DownloadVoice commands
    msgs,           \* messages sent to the event loop and not yet handled
    speaking,       \* PiperVoice.speaking
    modelPresent,   \* the configured model file exists in the voices directory
    last,           \* what the event loop handled last, and the cancel handle it invoked (0: none)
    audio,          \* Recorder.Start lines 113-125: the captured bytes, the samples and the WAV
    ws,             \* a WordsStore: words, order, and the Add calls made on it
    conf,           \* GetConfig: the file, the provider, the voice catalog and what it returned
    play,           \* PiperVoice.Speak from the device on: the subprocess, the callback, the wait
    pv              \* package piper: cachedVoices, the voices directory, the calls of FetchVoices and DownloadVoice

uiVars == <<status, content, focusRow, focusWord, cancelSpeak, uiPc, last>>
recVars == <<recording, Content, sinceStopped, chanGen, finishedClosed, starts>>
taskVars == <<transcribes, llms, downloads, msgs>>
ttsVars == <<speaks, speaking, modelPresent>>
libVars == <<audio, ws, conf, play, pv>>
vars == <<status, content, focusRow, focusWord, cancelSpeak, uiPc, last,
          recording, Content, sinceStopped, chanGen, finishedClosed, starts,
          transcribes, llms, downloads, msgs, speaks, speaking, modelPresent,
          audio, ws, conf, play, pv>>

\* ------------------------------------------------------------- strings
Max(a, b) == IF a >= b THEN a ELSE b
Min(a, b) == IF a <= b THEN a ELSE b

Space == {" ", "\n"}

RECURSIVE TrimLeft(_)
TrimLeft(s) ==
    IF s # <<>> /\ Head(s) \in Space THEN TrimLeft(Tail(s)) ELSE s

RECURSIVE TrimRight(_)
TrimRight(s) ==
    IF s # <<>> /\ s[Len(s)] \in Space THEN TrimRight(SubSeq(s, 1, Len(s) - 1)) ELSE s

\* strings.TrimSpace
TrimSpace(s) == TrimRight(TrimLeft(s))

\* strings.Split(s, sep) for a one-character separator: always at least one element
RECURSIVE Split(_, _)
Split(s, sep) ==
    IF \A i \in 1..Len(s) : s[i] # sep
    THEN <<s>>
    ELSE LET i == CHOOSE j \in 1..Len(s) : s[j] = sep /\ \A k \in 1..(j - 1) : s[k] # sep
         IN  <<SubSeq(s, 1, i - 1)>> \o Split(SubSeq(s, i + 1, Len(s)), sep)

RECURSIVE Join(_, _)
Join(parts, sep) ==
    IF Len(parts) = 1 THEN parts[1]
    ELSE parts[1] \o <<sep>> \o Join(Tail(parts), sep)

RECURSIVE Spaces(_)
Spaces(n) == IF n <= 0 THEN <<>> ELSE <<" ">> \o Spaces(n - 1)

RECURSIVE Widest(_)
Widest(lines) ==
    IF lines = <<>> THEN 0 ELSE Max(Len(Head(lines)), Widest(Tail(lines)))

\* lipgloss.NewStyle().Width(m.viewport.Width).Render(text), for a viewport
\* no narrower than the text: nothing is wrapped, and the lines of a
\* multi-line text are padded on the right to the same width.
Render(text) ==
    LET lines == Split(text, "\n")
        w == Widest(lines)
    IN  IF Len(lines) = 1 THEN text
        ELSE Join([i \in 1..Len(lines) |-> lines[i] \o Spaces(w - Len(lines[i]))], "\n")

\* rows := strings.Split(strings.TrimSpace(m.content), "\n")
Rows(c) == Split(TrimSpace(c), "\n")
\* strings.Split(strings.TrimSpace(row), " ")
Words(row) == Split(TrimSpace(row), " ")

AIPrefix == <<"A", "I", ":", " ">>
EntryEnd == <<" ", "\n">>

\* The texts a transcription or a completion carries in the runs of Spec and
\* SpecTurn, and in the runs of SpecReply.
Texts == {<<"a">>}
ReplyTexts == {<<"a">>, <<"b">>}
\* The texts of the navigation runs: one word, two words, and two lines of
\* which the second is indented.
NavTexts == {<<"a">>, <<"a", " ", "b">>, <<"a", "\n", " ", "b">>}

\* ---------------------------------------------------------------- state
\* initialModel and NewRecorder, NewPiperVoice: status "Ready", an empty
\* transcript, focus at (0, 0), no cancel handle, a recorder that is not
\* recording and never stopped (the zero time is more than a second ago).
InitProgram ==
    /\ status = "Ready"
    /\ content = <<>>
    /\ focusRow = 0
    /\ focusWord = 0
    /\ cancelSpeak = 0
    /\ uiPc = "idle"
    /\ last = [kind |-> "none", invoked |-> 0, at |-> ""]
    /\ recording = FALSE
    /\ Content = 0
    /\ sinceStopped = Second
    /\ chanGen = 0
    /\ finishedClosed = {}
    /\ starts = <<>>
    /\ transcribes = <<>>
    /\ llms = <<>>
    /\ speaks = <<>>
    /\ downloads = <<>>
    /\ msgs = {}
    /\ speaking = FALSE
    /\ modelPresent \in BOOLEAN

\* Nothing captured yet: sampleRate and channels are the constants of main.go 334-335.
NoAudio ==
    [raw |-> <<>>, sampleRate |-> 16000, channels |-> 1, samples |-> <<>>, wav |-> <<>>, pc |-> "idle"]

\* NewWordsStore, part_002 14-19: an empty map and an empty order; no Add call
\* made yet, and an empty List taken of it.
NewWordsStore == [words |-> <<>>, order |-> <<>>, adds |-> <<>>, listed |-> [out |-> <<>>, n |-> 0]]

\* GetConfig has not been called.
NoConf == [pc |-> "idle"]

\* No playback device has been made.
NoPlay == [pc |-> "idle"]
NoVoices == [pc |-> "idle"]

Init ==
    /\ InitProgram
    /\ audio = NoAudio
    /\ ws = NewWordsStore
    /\ conf = NoConf
    /\ play = NoPlay
    /\ pv = NoVoices

\* A message to the event loop. DownloadModel (main.go 426-430) carries the
\* model and the language of the ErrorModelNotFound that Speak returned, which
\* are those of the voice (NewPiperVoice, part_007 281-291).
Msg(type, text, add, st, src) ==
    [type |-> type, text |-> text, add |-> add, status |-> st, src |-> src,
     model |-> IF type = "DownloadModel" THEN "de_DE-karlsson-low.onnx" ELSE "",
     language |-> IF type = "DownloadModel" THEN "de" ELSE ""]

\* The process runs until the event loop quits or a handler panics.
Running == uiPc \notin {"quit", "panic"}

\* The event loop takes the next message only between two handlers.
Idle == uiPc = "idle"

\* context.CancelFunc: cancelling the context of Speak call h (nil: nothing)
Cancel(h, sp) ==
    IF h = 0 THEN sp ELSE [sp EXCEPT ![h].cancelled = TRUE]

\* piper_ctx.Err() != nil
Cancelled(i) == speaks[i].cancelled

\* What a handler leaves in last: the key or message, the cancel handle it
\* invoked and, when that cancelled a context not cancelled before, where
\* the Speak call was.
Pressed(key, h) ==
    [kind |-> key, invoked |-> h,
     at |-> IF h = 0 \/ speaks[h].cancelled THEN "" ELSE speaks[h].pc]

\* Time passes; only whether a second has gone by since Stopped is kept.
Tick ==
    /\ Running
    /\ sinceStopped < Second
    /\ sinceStopped' = sinceStopped + 1
    /\ UNCHANGED libVars
    /\ UNCHANGED <<uiVars, taskVars, ttsVars, recording, Content, chanGen, finishedClosed, starts>>

\* ------------------------------------------------------- Recorder.Start
\* A Start that closes the completion channel on its way out of a failure.
FailedStartCloses == finishedClosed \cup {chanGen}

\* lines 64-99: the three returns with an error come before any use of r;
\* r.finished is as it was.
FailedStartLeaves == finishedClosed

\* lines 64-99: the audio context or the capture device fails; Start returns
\* the error and the recorder is untouched.
StartInitFail(i) ==
    /\ Running
    /\ starts[i].pc = "init"
    /\ starts' = [starts EXCEPT ![i].pc = "failed"]
    /\ finishedClosed' = FailedStartLeaves
    /\ UNCHANGED libVars
    /\ UNCHANGED <<uiVars, taskVars, ttsVars, recording, Content, sinceStopped, chanGen>>

\* lines 64-103: the device started; r.recording = true
StartRecording(i) ==
    /\ Running
    /\ starts[i].pc = "init"
    /\ recording' = TRUE
    /\ starts' = [starts EXCEPT ![i].pc = "armed"]
    /\ UNCHANGED libVars
    /\ UNCHANGED <<uiVars, taskVars, ttsVars, Content, sinceStopped, chanGen, finishedClosed>>

\* line 108: <-r.done reads the field r.done and blocks on that channel
StartWaitDone(i) ==
    /\ Running
    /\ starts[i].pc = "armed"
    /\ starts' = [starts EXCEPT ![i].pc = "waiting", ![i].ch = chanGen]
    /\ UNCHANGED libVars
    /\ UNCHANGED <<uiVars, taskVars, ttsVars, recording, Content, sinceStopped, chanGen, finishedClosed>>

\* lines 110-130: the WAV is stored, the flag cleared, Stopped set to now
StartStore(i) ==
    /\ Running
    /\ starts[i].pc = "stopping"
    /\ Content' = i
    /\ recording' = FALSE
    /\ sinceStopped' = 0
    /\ starts' = [starts EXCEPT ![i].pc = "closing"]
    /\ UNCHANGED libVars
    /\ UNCHANGED <<uiVars, taskVars, ttsVars, chanGen, finishedClosed>>

\* lines 131-132: close(r.finished); return
StartClose(i) ==
    /\ Running
    /\ starts[i].pc = "closing"
    /\ finishedClosed' = finishedClosed \cup {chanGen}
    /\ starts' = [starts EXCEPT ![i].pc = "returned"]
    /\ UNCHANGED libVars
    /\ UNCHANGED <<uiVars, taskVars, ttsVars, recording, Content, sinceStopped, chanGen>>

\* --------------------------------------------------- key ctrl+b and Stop
\* A handler without the debounce.
CtrlBNeverDebounced == FALSE

\* main.go 587: time.Since(m.recorder.Stopped) < time.Second
CtrlBDebounced == sinceStopped < Second

\* main.go 582-609 up to the call of Stop or the return of a command.
KeyCtrlB(limit) ==
    /\ Idle
    /\ speaks' = Cancel(cancelSpeak, speaks)
    /\ IF CtrlBDebounced
       THEN /\ last' = Pressed("ctrl+b:ignored", cancelSpeak)
            /\ UNCHANGED <<status, uiPc, starts>>
       ELSE IF recording
       THEN \* m.recorder.Stop(): r.recording is true, Stop goes on to send
            /\ uiPc' = "stop_send"
            /\ last' = Pressed("ctrl+b:stop", cancelSpeak)
            /\ UNCHANGED <<status, starts>>
       ELSE /\ Len(starts) < limit
            /\ status' = "Recording"
            /\ starts' = Append(starts, [pc |-> "init", ch |-> -1])
            /\ last' = Pressed("ctrl+b:start", cancelSpeak)
            /\ UNCHANGED uiPc
    /\ UNCHANGED libVars
    /\ UNCHANGED <<content, focusRow, focusWord, cancelSpeak, taskVars,
                   recording, Content, sinceStopped, chanGen, finishedClosed, speaking, modelPresent>>

\* Recorder.Stop line 139 meets Start line 108 on the unbuffered done channel.
StopSend(i) ==
    /\ uiPc = "stop_send"
    /\ starts[i].pc = "waiting"
    /\ starts[i].ch = chanGen
    /\ starts' = [starts EXCEPT ![i].pc = "stopping"]
    /\ uiPc' = "stop_wait"
    /\ UNCHANGED libVars
    /\ UNCHANGED <<status, content, focusRow, focusWord, cancelSpeak, last,
                   taskVars, ttsVars, recording, Content, sinceStopped, chanGen, finishedClosed>>

\* A Stop that went on without waiting for Start to close the channel.
FinishedNotAwaited == TRUE

\* Recorder.Stop line 140: <-r.finished returns once the channel is closed
FinishedReceived == chanGen \in finishedClosed

\* A Stop that keeps the channels it has.
SameChannels == chanGen

\* Recorder.Stop lines 142-143: r.done and r.finished are made anew
FreshChannels == chanGen + 1

\* Stop lines 140-143 (finished received, both channels made anew), then
\* main.go 593-602: status "Ready" and the transcription command.
StopReturn ==
    /\ uiPc = "stop_wait"
    /\ FinishedReceived
    /\ chanGen' = FreshChannels
    /\ status' = "Ready"
    /\ transcribes' = Append(transcribes, [pc |-> "new", audio |-> 0, stops |-> chanGen + 1])
    /\ uiPc' = "idle"
    /\ UNCHANGED libVars
    /\ UNCHANGED <<content, focusRow, focusWord, cancelSpeak, last, llms, downloads, msgs,
                   ttsVars, recording, Content, sinceStopped, finishedClosed, starts>>

\* --------------------------------------------- the transcription command
\* main.go 595: the command reads m.recorder.Content when it runs
TranscribeRead(i) ==
    /\ Running
    /\ transcribes[i].pc = "new"
    /\ transcribes' = [transcribes EXCEPT ![i].pc = "sent", ![i].audio = Content]
    /\ UNCHANGED libVars
    /\ UNCHANGED <<uiVars, recVars, ttsVars, llms, downloads, msgs>>

\* main.go 601: transcribeWithGroq returned a text
TranscribeOk(i, t) ==
    /\ Running
    /\ transcribes[i].pc = "sent"
    /\ transcribes' = [transcribes EXCEPT ![i].pc = "done"]
    /\ msgs' = msgs \cup {Msg("TranscriptionReceived", t, FALSE, "", <<"transcribe", i>>)}
    /\ UNCHANGED libVars
    /\ UNCHANGED <<uiVars, recVars, ttsVars, llms, downloads>>

\* A failed transcription passed on as an empty text.
FailedTranscriptionAsEmpty(i) == {Msg("TranscriptionReceived", <<>>, FALSE, "", <<"transcribe", i>>)}

\* main.go 597-600: on an error the command returns EmptyCmd, a function
\* value that no case of Update matches: no message the program acts on.
FailedTranscription(i) == {}

\* main.go 596-600, part_000 183-253: transcribeWithGroq returned an error
TranscribeFail(i) ==
    /\ Running
    /\ transcribes[i].pc = "sent"
    /\ transcribes' = [transcribes EXCEPT ![i].pc = "failed"]
    /\ msgs' = msgs \cup FailedTranscription(i)
    /\ UNCHANGED libVars
    /\ UNCHANGED <<uiVars, recVars, ttsVars, llms, downloads>>

\* -------------------------------------------------- GetLlmCompletion
\* A completion command that sends whatever text it has, an empty one too.
LlmResultAlwaysText(i, kind, t) ==
    IF kind = "error" THEN Msg("StatusChanged", <<>>, FALSE, "Failed get completion", <<"llm", i>>)
    ELSE Msg("ReadyCompletion", IF kind = "notext" THEN <<>> ELSE t, TRUE, "", <<"llm", i>>)

\* main.go 413-424: the message the command returns
LlmResult(i, kind, t) ==
    IF kind = "error" THEN Msg("StatusChanged", <<>>, FALSE, "Failed get completion", <<"llm", i>>)
    ELSE IF kind = "notext" THEN Msg("StatusChanged", <<>>, FALSE, "No completion", <<"llm", i>>)
    ELSE Msg("ReadyCompletion", t, TRUE, "", <<"llm", i>>)

GetLlmCompletion(i, kind, t) ==
    /\ Running
    /\ llms[i].pc = "new"
    /\ llms' = [llms EXCEPT ![i].pc = kind]
    /\ msgs' = msgs \cup {LlmResult(i, kind, t)}
    /\ UNCHANGED libVars
    /\ UNCHANGED <<uiVars, recVars, ttsVars, transcribes, downloads>>

\* ------------------------------------------------------ PiperVoice.Speak
\* A Speak command without the case for ErrorModelNotFound.
SpeakResultNoDownload(i, err) ==
    IF err = "nil" THEN Msg("StatusChanged", <<>>, FALSE, "Ready", <<"speak", i>>)
    ELSE Msg("StatusChanged", <<>>, FALSE, "Failed to speak", <<"speak", i>>)

\* main.go 432-448: what the Speak command sends for the error PiperVoice.Speak returned
SpeakResult(i, err) ==
    IF err = "ModelNotFound" THEN Msg("DownloadModel", speaks[i].text, FALSE, "", <<"speak", i>>)
    ELSE IF err = "error" THEN Msg("StatusChanged", <<>>, FALSE, "Failed to speak", <<"speak", i>>)
    ELSE Msg("StatusChanged", <<>>, FALSE, "Ready", <<"speak", i>>)

\* A return that leaves the speaking flag as it is.
SpeakReturnKeepsFlag(i, err) ==
    /\ speaking' = speaking
    /\ speaks' = [speaks EXCEPT ![i].pc = "returned", ![i].err = err]
    /\ msgs' = msgs \cup {SpeakResult(i, err)}

\* PiperVoice.Speak returns err: the deferred speaking = false runs and the
\* command sends its message.
SpeakReturn(i, err) ==
    /\ speaking' = FALSE
    /\ speaks' = [speaks EXCEPT ![i].pc = "returned", ![i].err = err]
    /\ msgs' = msgs \cup {SpeakResult(i, err)}

\* part_007 317-319: speaking = true
SpeakBegin(i) ==
    /\ Running
    /\ speaks[i].pc = "new"
    /\ speaking' = TRUE
    /\ speaks' = [speaks EXCEPT ![i].pc = "open"]
    /\ UNCHANGED libVars
    /\ UNCHANGED <<uiVars, recVars, taskVars, modelPresent>>

\* part_007 327-420: os.Stat of the model file, then the pipe, the audio
\* context and the playback device
SpeakOpen(i, ok) ==
    /\ Running
    /\ speaks[i].pc = "open"
    /\ IF ~modelPresent THEN SpeakReturn(i, "ModelNotFound")
       ELSE IF ~ok THEN SpeakReturn(i, "error")
       ELSE /\ speaks' = [speaks EXCEPT ![i].pc = "piperStart"]
            /\ UNCHANGED <<speaking, msgs>>
    /\ UNCHANGED libVars
    /\ UNCHANGED <<uiVars, recVars, transcribes, llms, downloads, modelPresent>>

\* part_007 431-434: piperCmd.Start() of a command made with exec.CommandContext
\* fails with the context's error once the context is cancelled
SpeakPiperStart(i, ok) ==
    /\ Running
    /\ speaks[i].pc = "piperStart"
    /\ IF ok /\ ~Cancelled(i)
       THEN /\ speaks' = [speaks EXCEPT ![i].pc = "select", ![i].proc = TRUE]
            /\ UNCHANGED <<speaking, msgs>>
       ELSE SpeakReturn(i, "error")
    /\ UNCHANGED libVars
    /\ UNCHANGED <<uiVars, recVars, transcribes, llms, downloads, modelPresent>>

\* A select whose cancellation case falls through to the wait.
SpeakCancelledThenWaits(i) ==
    /\ Running
    /\ speaks[i].pc = "select"
    /\ Cancelled(i)
    /\ speaks' = [speaks EXCEPT ![i].pc = "wait"]
    /\ UNCHANGED libVars
    /\ UNCHANGED <<uiVars, recVars, taskVars, speaking, modelPresent>>

\* part_007 439-441: case <-piper_ctx.Done(): return nil
SpeakCancelled(i) ==
    /\ Running
    /\ speaks[i].pc = "select"
    /\ Cancelled(i)
    /\ SpeakReturn(i, "nil")
    /\ UNCHANGED libVars
    /\ UNCHANGED <<uiVars, recVars, transcribes, llms, downloads, modelPresent>>

\* part_007 442: case <-playbackDone, sent by a playback callback that saw
\* the context not yet cancelled; done records that the signal was received
SpeakPlaybackDone(i) ==
    /\ Running
    /\ speaks[i].pc = "select"
    /\ speaks' = [speaks EXCEPT ![i].pc = "wait", ![i].done = TRUE]
    /\ UNCHANGED libVars
    /\ UNCHANGED <<uiVars, recVars, taskVars, speaking, modelPresent>>

\* part_007 445-451: piperCmd.Wait(); its error is returned unless the context was cancelled
SpeakWait(i, piperErr) ==
    /\ Running
    /\ speaks[i].pc = "wait"
    /\ SpeakReturn(i, IF piperErr /\ ~Cancelled(i) THEN "error" ELSE "nil")
    /\ UNCHANGED libVars
    /\ UNCHANGED <<uiVars, recVars, transcribes, llms, downloads, modelPresent>>

\* ------------------------------------------------- the download command
\* A download command that asks for the completion to be added again.
DownloadResultAdds(i, ok) ==
    IF ok THEN Msg("ReadyCompletion", downloads[i].text, TRUE, "", <<"download", i>>)
    ELSE Msg("StatusChanged", <<>>, FALSE, "Failed to download model", <<"download", i>>)

\* main.go 481-487; a successful DownloadVoice wrote the files of the voice it
\* resolved, which need not include the configured model file
DownloadResult(i, ok) ==
    IF ok THEN Msg("ReadyCompletion", downloads[i].text, FALSE, "", <<"download", i>>)
    ELSE Msg("StatusChanged", <<>>, FALSE, "Failed to download model", <<"download", i>>)

DownloadVoice(i, ok, installs) ==
    /\ Running
    /\ downloads[i].pc = "new"
    /\ downloads' = [downloads EXCEPT ![i].pc = IF ok THEN "ok" ELSE "failed"]
    /\ modelPresent' = (modelPresent \/ installs)
    /\ msgs' = msgs \cup {DownloadResult(i, ok)}
    /\ UNCHANGED libVars
    /\ UNCHANGED <<uiVars, recVars, transcribes, llms, speaks, speaking>>

\* ---------------------------------------------------------- model.Update
\* main.go 489-490
UpdateStatusChanged(m) ==
    /\ Idle
    /\ m.type = "StatusChanged"
    /\ status' = m.status
    /\ msgs' = msgs \ {m}
    /\ last' = Pressed("StatusChanged", 0)
    /\ UNCHANGED libVars
    /\ UNCHANGED <<content, focusRow, focusWord, cancelSpeak, uiPc, recVars, ttsVars,
                   transcribes, llms, downloads>>

\* main.go 479-487
UpdateDownloadModel(limit, m) ==
    /\ Idle
    /\ m.type = "DownloadModel"
    /\ Len(downloads) < limit
    /\ status' = "Downloading tts model"
    /\ downloads' = Append(downloads, [pc |-> "new", text |-> m.text, src |-> m.src])
    /\ msgs' = msgs \ {m}
    /\ last' = Pressed("DownloadModel", 0)
    /\ UNCHANGED libVars
    /\ UNCHANGED <<content, focusRow, focusWord, cancelSpeak, uiPc, recVars, ttsVars,
                   transcribes, llms>>

\* A reply that takes the place of the transcript.
AppendAIReplaces(c, text) == AIPrefix \o Render(text) \o EntryEnd

\* main.go 494: fmt.Sprintf("%sAI: %s \n", m.content, wrappedCompletion)
AppendAI(c, text) == c \o AIPrefix \o Render(text) \o EntryEnd

\* main.go 507: fmt.Sprintf("%sYou:%s \n", m.content, wrappedTrascription)
AppendYou(c, text) == c \o <<"Y", "o", "u", ":">> \o Render(text) \o EntryEnd

\* main.go 501-503: a new context; its cancel function replaces m.cancelSpeak
\* and the Speak command is returned
StartSpeaking(m) ==
    /\ speaks' = Append(speaks, [pc |-> "new", cancelled |-> FALSE, text |-> m.text,
                                 proc |-> FALSE, done |-> FALSE, err |-> "", src |-> m.src])
    /\ cancelSpeak' = Len(speaks) + 1

\* main.go 491-503
UpdateReadyCompletion(m) ==
    /\ Idle
    /\ m.type = "ReadyCompletion"
    /\ content' = IF m.add THEN AppendAI(content, m.text) ELSE content
    /\ status' = "Speaking"
    /\ StartSpeaking(m)
    /\ msgs' = msgs \ {m}
    /\ last' = Pressed("ReadyCompletion", 0)
    /\ UNCHANGED libVars
    /\ UNCHANGED <<focusRow, focusWord, uiPc, recVars, speaking, modelPresent,
                   transcribes, llms, downloads>>

\* main.go 505-512
UpdateTranscriptionReceived(m) ==
    /\ Idle
    /\ m.type = "TranscriptionReceived"
    /\ content' = AppendYou(content, m.text)
    /\ llms' = Append(llms, [pc |-> "new", text |-> m.text, src |-> m.src])
    /\ msgs' = msgs \ {m}
    /\ last' = Pressed("TranscriptionReceived", 0)
    /\ UNCHANGED libVars
    /\ UNCHANGED <<status, focusRow, focusWord, cancelSpeak, uiPc, recVars, ttsVars,
                   transcribes, downloads>>

\* main.go 516-520
KeyEsc ==
    /\ Idle
    /\ speaks' = Cancel(cancelSpeak, speaks)
    /\ status' = "Ready"
    /\ last' = Pressed("esc", cancelSpeak)
    /\ UNCHANGED libVars
    /\ UNCHANGED <<content, focusRow, focusWord, cancelSpeak, uiPc, recVars, taskVars,
                   speaking, modelPresent>>

\* main.go 610-611: tea.Quit; p.Run returns and main returns (661-684)
KeyQuit ==
    /\ Idle
    /\ uiPc' = "quit"
    /\ last' = Pressed("quit", 0)
    /\ UNCHANGED libVars
    /\ UNCHANGED <<status, content, focusRow, focusWord, cancelSpeak, recVars, taskVars, ttsVars>>

\* ------------------------------------------------- keys j, k, w and b
\* rows[i] of a Go slice: an index outside the slice panics
InRange(i, seq) == 0 <= i /\ i < Len(seq)

\* min(max(len(strings.Split(strings.TrimSpace(focusedRow), " ")) - 1, 0), m.focusWord)
ClampWord(row, w) == Min(Max(Len(Words(row)) - 1, 0), w)

\* A handler panicked: the program ends, the model it was changing is dropped.
Panic(key) ==
    /\ uiPc' = "panic"
    /\ last' = Pressed(key, 0)
    /\ UNCHANGED <<focusRow, focusWord>>

\* main.go 521-533
KeyJ ==
    /\ Idle
    /\ LET rows == Rows(content)
           row == focusRow + 1
       IN  IF ~InRange(row, rows) THEN Panic("j")
           ELSE /\ focusRow' = row
                /\ focusWord' = ClampWord(rows[row + 1], focusWord)
                /\ last' = Pressed("j", 0)
                /\ UNCHANGED uiPc
    /\ UNCHANGED libVars
    /\ UNCHANGED <<status, content, cancelSpeak, recVars, taskVars, ttsVars>>

\* main.go 534-548
KeyK ==
    /\ Idle
    /\ LET rows == Rows(content)
           row == focusRow - 1
       IN  IF focusRow - 1 < 0
           THEN /\ last' = Pressed("k", 0)
                /\ UNCHANGED <<focusRow, focusWord, uiPc>>
           ELSE IF ~InRange(row, rows) THEN Panic("k")
           ELSE /\ focusRow' = row
                /\ focusWord' = ClampWord(rows[row + 1], focusWord)
                /\ last' = Pressed("k", 0)
                /\ UNCHANGED uiPc
    /\ UNCHANGED libVars
    /\ UNCHANGED <<status, content, cancelSpeak, recVars, taskVars, ttsVars>>

\* main.go 549-567
KeyW ==
    /\ Idle
    /\ LET rows == Rows(content)
       IN  IF ~InRange(focusRow, rows) THEN Panic("w")
           ELSE LET focusedRow == rows[focusRow + 1]
                    next == focusWord + 1 >= Len(Words(focusedRow))
                IN  /\ IF focusWord + 1 >= Len(Split(focusedRow, " ")) /\ focusRow + 1 >= Len(rows)
                       THEN UNCHANGED <<focusRow, focusWord>>
                       ELSE /\ focusRow' = IF next THEN focusRow + 1 ELSE focusRow
                            /\ focusWord' = IF next THEN 0 ELSE focusWord + 1
                    /\ last' = Pressed("w", 0)
                    /\ UNCHANGED uiPc
    /\ UNCHANGED libVars
    /\ UNCHANGED <<status, content, cancelSpeak, recVars, taskVars, ttsVars>>

\* main.go 568-581
KeyB ==
    /\ Idle
    /\ LET rows == Rows(content)
           row == Max(0, focusRow - 1)
       IN  IF focusWord - 1 < 0 /\ focusRow - 1 < 0
           THEN /\ last' = Pressed("b", 0)
                /\ UNCHANGED <<focusRow, focusWord, uiPc>>
           ELSE IF focusWord - 1 < 0
           THEN IF ~InRange(row, rows) THEN Panic("b")
                ELSE /\ focusRow' = row
                     /\ focusWord' = Len(Words(rows[row + 1])) - 1
                     /\ last' = Pressed("b", 0)
                     /\ UNCHANGED uiPc
           ELSE /\ focusWord' = focusWord - 1
                /\ last' = Pressed("b", 0)
                /\ UNCHANGED <<focusRow, uiPc>>
    /\ UNCHANGED libVars
    /\ UNCHANGED <<status, content, cancelSpeak, recVars, taskVars, ttsVars>>

\* ------------------------------------------------------------ the program
RecorderTasks(texts) ==
    \/ Tick
    \/ \E i \in 1..Len(starts) : StartInitFail(i)
    \/ \E i \in 1..Len(starts) : StartRecording(i)
    \/ \E i \in 1..Len(starts) : StartWaitDone(i)
    \/ \E i \in 1..Len(starts) : StartStore(i)
    \/ \E i \in 1..Len(starts) : StartClose(i)
    \/ \E i \in 1..Len(transcribes) : TranscribeRead(i)
    \/ \E i \in 1..Len(transcribes) : TranscribeFail(i)
    \/ \E i \in 1..Len(transcribes), t \in texts : TranscribeOk(i, t)

ReplyTasks(texts) ==
    \/ \E i \in 1..Len(llms), kind \in {"error", "notext", "text"}, t \in texts :
          GetLlmCompletion(i, kind, t)
    \/ \E i \in 1..Len(speaks) : SpeakBegin(i)
    \/ \E i \in 1..Len(speaks), ok \in BOOLEAN : SpeakOpen(i, ok)
    \/ \E i \in 1..Len(speaks), ok \in BOOLEAN : SpeakPiperStart(i, ok)
    \/ \E i \in 1..Len(speaks) : SpeakCancelled(i)
    \/ \E i \in 1..Len(speaks) : SpeakPlaybackDone(i)
    \/ \E i \in 1..Len(speaks), piperErr \in BOOLEAN : SpeakWait(i, piperErr)
    \/ \E i \in 1..Len(downloads), ok \in BOOLEAN, installs \in BOOLEAN :
          DownloadVoice(i, ok, installs)

Messages(rounds) ==
    \/ \E m \in msgs : UpdateStatusChanged(m)
    \/ \E m \in msgs : UpdateDownloadModel(rounds, m)
    \/ \E m \in msgs : UpdateReadyCompletion(m)
    \/ \E m \in msgs : UpdateTranscriptionReceived(m)

\* One step of the program: a background task moves, or the event loop
\* handles a message or a key.
Step(limit, texts) ==
    \/ RecorderTasks(texts)
    \/ ReplyTasks(texts)
    \/ Messages(MaxDownloads)
    \/ KeyCtrlB(limit)
    \/ \E i \in 1..Len(starts) : StopSend(i)
    \/ StopReturn
    \/ KeyEsc
    \/ KeyQuit

\* Runs with up to MaxStarts recordings, whose turns overlap.
Next == Step(MaxStarts, Texts)

Spec == Init /\ [][Next]_vars

\* Runs with up to MaxTurnStarts recordings.
NextTurn == Step(MaxTurnStarts, Texts)

SpecTurn == Init /\ [][NextTurn]_vars

\* ------------------------------------------ runs without the recorder
\* A recording made, stopped and transcribed to text t, taken as one step:
\* main.go 594-602 sends TranscriptionReceived.
Transcribed(limit, t) ==
    /\ Running
    /\ Len(transcribes) < limit
    /\ transcribes' = Append(transcribes, [pc |-> "done", audio |-> 0, stops |-> 0])
    /\ msgs' = msgs \cup {Msg("TranscriptionReceived", t, FALSE, "", <<"transcribe", Len(transcribes) + 1>>)}
    /\ UNCHANGED libVars
    /\ UNCHANGED <<uiVars, recVars, ttsVars, llms, downloads>>

\* The replies: from a transcription to the end of its speech, with the
\* download rounds and Esc.
NextReply ==
    \/ \E t \in ReplyTexts : Transcribed(MaxReplies, t)
    \/ ReplyTasks(ReplyTexts)
    \/ Messages(MaxRounds)
    \/ KeyEsc

SpecReply == Init /\ [][NextReply]_vars

\* The navigation: the transcript grows while the keys j, k, w, b move the focus.
NextNav ==
    \/ \E t \in NavTexts : Transcribed(MaxEntries, t)
    \/ \E i \in 1..Len(llms), t \in NavTexts : GetLlmCompletion(i, "text", t)
    \/ \E m \in msgs : UpdateTranscriptionReceived(m)
    \/ \E m \in msgs : UpdateReadyCompletion(m)
    \/ KeyJ
    \/ KeyK
    \/ KeyW
    \/ KeyB

SpecNav == Init /\ [][NextNav]_vars

\* The whole of Update: a turn with its recording, and the keys j, k, w, b.
NextFrame ==
    \/ Step(MaxTurnStarts, Texts)
    \/ KeyJ
    \/ KeyK
    \/ KeyW
    \/ KeyB

SpecFrame == Init /\ [][NextFrame]_vars

\* ------------------------------------- Recorder.Start: samples and WAV
\* main.go 341
wavHeaderSize == 44

\* int16(v): the low 16 bits of v, as a signed number
Int16(v) ==
    LET u == ((v % 65536) + 65536) % 65536
    IN  IF u >= 32768 THEN u - 65536 ELSE u

\* The two bytes of int16(v), high byte first.
BE16(v) ==
    LET u == ((v % 65536) + 65536) % 65536
    IN  <<u \div 256, u % 256>>

\* binary.Write(&buf, binary.LittleEndian, int16(v)): two bytes, low byte first
LE16(v) ==
    LET u == ((v % 65536) + 65536) % 65536
    IN  <<u % 256, u \div 256>>

\* binary.Write(&buf, binary.LittleEndian, int32(v)), for 0 <= v < 2^31
LE32(v) ==
    <<v % 256, (v \div 256) % 256, (v \div 65536) % 256, (v \div 16777216) % 256>>

\* part_000 118-121: allSamples[i] = int16(raw[2*i]) | int16(raw[2*i+1])<<8,
\* for len(raw)/2 samples
Pair(raw) ==
    [i \in 1..(Len(raw) \div 2) |-> Int16(raw[2 * i - 1] + 256 * raw[2 * i])]

\* part_000 174-177: every sample written little-endian
RECURSIVE SampleBytes(_)
SampleBytes(samples) ==
    IF samples = <<>> THEN <<>>
    ELSE LE16(Head(samples)) \o SampleBytes(Tail(samples))

\* A RIFF size that counts the whole file.
FileSizeWhole(dataSize) == wavHeaderSize + dataSize

\* part_000 151: fileSize := wavHeaderSize + dataSize - 8
FileSize(dataSize) == wavHeaderSize + dataSize - 8

\* A block alignment that takes one channel.
BlockAlignMono(chans) == 2

\* part_000 165: blockAlign := channels * 2
BlockAlign(chans) == chans * 2

\* part_000 147-180. The chunk names are written as bytes: "RIFF", "WAVE",
\* "fmt ", "data".
samplesToWAV(samples, rate, chans) ==
    LET dataSize == Len(samples) * 2
    IN  <<82, 73, 70, 70>> \o LE32(FileSize(dataSize)) \o <<87, 65, 86, 69>>
        \o <<102, 109, 116, 32>> \o LE32(16) \o LE16(1) \o LE16(chans) \o LE32(rate)
        \o LE32(rate * chans * 2) \o LE16(BlockAlign(chans)) \o LE16(16)
        \o <<100, 97, 116, 97>> \o LE32(dataSize)
        \o SampleBytes(samples)

\* A recording that got its stop signal: capturedBytes is what the device
\* delivered, up to MaxRaw bytes, under some sample rate and channel count.
InitWav ==
    /\ InitProgram
    /\ audio \in [raw : UNION {[1..n -> {0, 1, 127, 128, 255}] : n \in 0..MaxRaw},
                  sampleRate : {8000, 16000},
                  channels : {1, 2, 32767, 32768, 65536},
                  samples : {<<>>}, wav : {<<>>}, pc : {"captured"}]
    /\ ws = NewWordsStore
    /\ conf = NoConf
    /\ play = NoPlay
    /\ pv = NoVoices

\* part_000 113-121
StartPair ==
    /\ audio.pc = "captured"
    /\ audio' = [audio EXCEPT !.samples = Pair(audio.raw), !.pc = "paired"]
    /\ UNCHANGED <<uiVars, recVars, taskVars, ttsVars, ws, conf, play, pv>>

\* part_000 124: wavData := samplesToWAV(allSamples, sampleRate, channels)
StartEncode ==
    /\ audio.pc = "paired"
    /\ audio' = [audio EXCEPT !.wav = samplesToWAV(audio.samples, audio.sampleRate, audio.channels),
                              !.pc = "encoded"]
    /\ UNCHANGED <<uiVars, recVars, taskVars, ttsVars, ws, conf, play, pv>>

NextWav ==
    \/ StartPair
    \/ StartEncode

SpecWav == InitWav /\ [][NextWav]_vars

\* ----------------------------------------------------------- WordsStore

\* A store that takes every word for a new one.
NeverKnown(word) == FALSE

\* part_002 30: _, ok := ws.words[word]
Known(word) == word \in DOMAIN ws.words

\* part_002 24: fmt.Fprintf(&s, "%s: %s\n", word, ws.words[word])
Line(word, meaning) == word \o <<":", " ">> \o meaning \o <<"\n">>

\* part_002 21-27: the lines of the words of order, one after the other
RECURSIVE Lines(_, _)
Lines(order, words) ==
    IF order = <<>> THEN <<>>
    ELSE Line(Head(order), words[Head(order)]) \o Lines(Tail(order), words)

\* part_002 29-34
WsAdd(word, meaning) ==
    /\ Len(ws.adds) < MaxAdds
    /\ ws' = [ws EXCEPT
                !.order = IF Known(word) THEN @ ELSE Append(@, word),
                !.words = [w \in DOMAIN @ \cup {word} |-> IF w = word THEN meaning ELSE @[w]],
                !.adds = Append(@, <<word, meaning>>)]
    /\ UNCHANGED <<uiVars, recVars, taskVars, ttsVars, audio, conf, play, pv>>

\* part_002 21-27, called after the Add calls made so far
WsList ==
    /\ ws.listed.n < Len(ws.adds)
    /\ ws' = [ws EXCEPT !.listed = [out |-> Lines(ws.order, ws.words), n |-> Len(ws.adds)]]
    /\ UNCHANGED <<uiVars, recVars, taskVars, ttsVars, audio, conf, play, pv>>

NextWords ==
    \/ \E word \in {<<"a">>, <<"b">>, <<"c">>}, meaning \in {<<"1">>, <<"2">>} :
          WsAdd(word, meaning)
    \/ WsList

SpecWords == Init /\ [][NextWords]_vars

\* ------------------------------------------------------------ GetConfig
\* part_005 191-204: NewConfig
NewConfig ==
    [language |-> "de", target |-> "en", libre |-> "http://localhost:5000",
     ttsType |-> "piper", ttsVoice |-> "de_DE-karlsson-low.onnx",
     sttType |-> "hosted", sttModel |-> "whisper-large-v3"]

\* The file at GetConfigPath: absent, not openable, not JSON, or a config, which
\* is what json.Unmarshal makes of it: a field the file does not set is "".
Files ==
    {[kind |-> k, cfg |-> NewConfig] : k \in {"absent", "denied", "malformed"}}
        \cup {[kind |-> "config", cfg |-> c] :
                 c \in [language : {"", "de", "fr"}, target : {"", "es"},
                        libre : {"", "http://libre"},
                        ttsType : {"", "piper", "elevenlabs"},
                        ttsVoice : {"", "fr_FR-siwis-low.onnx"},
                        sttType : {"", "hosted"},
                        sttModel : {"", "whisper-large-v3-turbo"}]}

\* What piper.FetchVoices returns: an error, or the catalog. The catalog is a
\* Go map; `order` is the order in which this call's range visits its entries.

\* The catalogs of the voices V, one for every order in which a range can
\* visit the entries of the map.
CatalogsOf(V) ==
    {[ok |-> TRUE, voices |-> V, order |-> o] :
        o \in {o \in [1..Cardinality(V) -> V] : \A v \in V : \E i \in DOMAIN o : o[i] = v}}

Catalogs ==
    {[ok |-> FALSE, voices |-> {}, order |-> <<>>]}
        \cup CatalogsOf({[key |-> "de_DE-thorsten-low", family |-> "de"]})
        \cup CatalogsOf({[key |-> "fr_FR-siwis-low", family |-> "fr"],
                         [key |-> "fr_FR-upmc-medium", family |-> "fr"],
                         [key |-> "de_DE-thorsten-low", family |-> "de"]})

\* A validation that takes every refusal for a wrong model.
isValidOneError(st) ==
    IF st = 0 THEN "transport"
    ELSE IF st = 200 THEN ""
    ELSE "Invalid model"

\* part_005 243-272: isValid
isValid(st) ==
    IF st = 0 THEN "transport"
    ELSE IF st = 200 THEN ""
    ELSE IF st = 401 THEN "Invalid API key"
    ELSE "Invalid model"

\* part_005 274-292: resolvePiperVoice. The loop has no break: v is assigned at
\* every entry of the wanted family, so the last match of the range is kept,
\* and an empty v after the loop gives the defaults.
resolvePiperVoice(language, catalog) ==
    LET matches == {i \in 1..Len(catalog.order) : catalog.order[i].family = language}
        end == CHOOSE i \in matches : \A j \in matches : j <= i
        v == IF matches = {} THEN "" ELSE catalog.order[end].key
    IN  IF ~catalog.ok \/ v = ""
        THEN {<<NewConfig.ttsVoice, NewConfig.language>>}
        ELSE {<<v \o ".onnx", language>>}

\* part_005 294-311: populateDefaults
populateDefaults(config, catalog) ==
    LET c1 == [config EXCEPT !.libre = IF @ = "" THEN NewConfig.libre ELSE @]
        c2 == [c1 EXCEPT !.ttsType = IF @ = "" THEN NewConfig.ttsType ELSE @]
    IN  IF c2.ttsType = "piper" /\ c2.ttsVoice = ""
        THEN {[c2 EXCEPT !.ttsVoice = r[1], !.language = r[2]] :
                 r \in resolvePiperVoice(c2.language, catalog)}
        ELSE {c2}

\* part_005 298-306: populateDefaults asks for the voice catalog when the
\* backend is piper and the file names no voice.
Fetches(config) ==
    /\ config.ttsType \in {"", "piper"}
    /\ config.ttsVoice = ""

\* What a GetConfig call returns and leaves behind: the file on disk, the
\* directory, and whether the voice catalog was asked for.
Returned(out, err, file, dir, fetched) ==
    [out |-> out, err |-> err, file |-> file, dir |-> dir, fetched |-> fetched]

\* part_005 170-189: the document json.MarshalIndent makes of a Config, its
\* keys the json tags of the struct.
MarshalIndent(config) ==
    [language |-> config.language,
     target_translation_language |-> config.target,
     libre_translate_url |-> config.libre,
     tts_backend |-> [type |-> config.ttsType, voice |-> config.ttsVoice],
     stt_backend |-> [type |-> config.sttType, model |-> config.sttModel]]

\* part_005 170-189: the Config json.Unmarshal makes of a document.
Unmarshal(doc) ==
    [language |-> doc.language, target |-> doc.target_translation_language,
     libre |-> doc.libre_translate_url,
     ttsType |-> doc.tts_backend.type, ttsVoice |-> doc.tts_backend.voice,
     sttType |-> doc.stt_backend.type, sttModel |-> doc.stt_backend.model]

\* A created file that is left empty whatever the write does.
FileNeverWritten(s, ok) == [kind |-> "malformed", cfg |-> NewConfig]

\* part_005 228: file.Write(s), its result not looked at. A write that fails
\* leaves the created file empty, which is not JSON.
FileAfterWrite(s, ok) ==
    IF ok THEN [kind |-> "config", cfg |-> Unmarshal(s)]
    ELSE [kind |-> "malformed", cfg |-> NewConfig]

\* part_005 206-230: CreateDefaultConfig, as GetConfig uses it (318-322)
CreateDefaultConfig(c) ==
    IF ~c.dirOk THEN Returned(NewConfig, "mkdir", c.file, c.dir, FALSE)
    ELSE IF ~c.createOk THEN Returned(NewConfig, "create", c.file, TRUE, FALSE)
    ELSE Returned(NewConfig, "", FileAfterWrite(MarshalIndent(NewConfig), c.writeOk), TRUE, FALSE)

\* part_005 313-347
GetConfigResults(c) ==
    IF c.file.kind = "absent" THEN {CreateDefaultConfig(c)}
    ELSE IF c.file.kind = "denied" THEN {Returned(NewConfig, "open", c.file, c.dir, FALSE)}
    ELSE IF c.file.kind = "malformed" THEN {Returned(NewConfig, "json", c.file, c.dir, FALSE)}
    ELSE IF isValid(c.status) # ""
         THEN {Returned(NewConfig, isValid(c.status), c.file, c.dir, FALSE)}
    ELSE {Returned(out, "", c.file, c.dir, Fetches(c.file.cfg)) :
             out \in populateDefaults(c.file.cfg, c.catalog)}

\* The program starts with some file, some provider and some catalog.
InitConfig ==
    /\ InitProgram
    /\ audio = NoAudio
    /\ ws = NewWordsStore
    /\ play = NoPlay
    /\ pv = NoVoices
    /\ \E f \in Files, d \in BOOLEAN, dirOk \in BOOLEAN, createOk \in BOOLEAN,
          writeOk \in BOOLEAN, st \in {0, 200, 401, 404}, cat \in Catalogs :
          \* st is the provider's answer to GET /models/<model>, 0 a transport error
          /\ f.kind # "absent" => d /\ dirOk /\ createOk /\ writeOk
          /\ f.kind \in {"denied", "malformed"} => st = 200 /\ cat.ok
          /\ conf = [pc |-> "called", file |-> f, dir |-> d, dirOk |-> dirOk,
                     createOk |-> createOk, writeOk |-> writeOk, status |-> st,
                     catalog |-> cat, out |-> NewConfig, err |-> "", fetched |-> FALSE,
                     was |-> f.cfg, had |-> f.kind]

GetConfig ==
    /\ conf.pc = "called"
    /\ \E r \in GetConfigResults(conf) :
          conf' = [conf EXCEPT !.pc = "returned", !.out = r.out, !.err = r.err,
                                 !.file = r.file, !.dir = r.dir, !.fetched = r.fetched]
    /\ UNCHANGED <<uiVars, recVars, taskVars, ttsVars, audio, ws, play, pv>>

NextConfig == GetConfig

SpecConfig == InitConfig /\ [][NextConfig]_vars

\* ---------------------------- PiperVoice.Speak: the playback callback
\* part_007 384: silenceCallbacks.Add(1) >= 4
silenceNeeded == 4

\* A callback that signals on every silence callback.
SignalAlwaysDue(n) == TRUE

\* part_007 384: the signal is tried once the count has come to 4
SignalDue(n) == n >= silenceNeeded

\* A block of n bytes of sound followed by zeros; sound is never 0 here.
Block(n) == [i \in 1..BlockLen |-> IF i <= n THEN 1 ELSE 0]

\* The block as the device hands it to the callback: the default device
\* configuration (part_007 364) has the output buffer silenced beforehand.
PreSilenced == Block(0)

\* Speak has made the pipe, the context and the device (part_007 336-420) and
\* has just begun the goroutine that starts the device (422). The subprocess
\* will write `left` whole blocks and `tail` more bytes.
InitPlay ==
    /\ InitProgram
    /\ audio = NoAudio
    /\ ws = NewWordsStore
    /\ conf = NoConf
    /\ pv = NoVoices
    /\ play \in [pc : {"start"}, dev : {"starting"}, err : {""}, piper : {"none"},
                 pipe : {"open"}, left : 0..MaxBlocks, tail : 0..(BlockLen - 1),
                 cancelled : {FALSE}, eofReached : {FALSE}, silenceCallbacks : {0},
                 block : {PreSilenced}, did : {"none"}, endN : {-1}, after : {0},
                 sent : {FALSE}, dropped : {FALSE}, result : {""}]

\* part_007 422-427: the goroutine's err = device.Start() writes the err of
\* the enclosing function; a failure is logged and nothing else.
DeviceStart(ok) ==
    /\ play.pc # "idle"
    /\ play.dev = "starting"
    /\ play' = [play EXCEPT !.dev = IF ok THEN "started" ELSE "failed",
                            !.err = IF ok THEN "" ELSE "device"]
    /\ UNCHANGED <<uiVars, recVars, taskVars, ttsVars, audio, ws, conf, pv>>

\* part_007 431: err = piperCmd.Start(). A command made with
\* exec.CommandContext does not start under a cancelled context, and a
\* command that did not start has its pipe closed.
PiperStart(ok) ==
    /\ play.pc = "start"
    /\ LET started == ok /\ ~play.cancelled
       IN  play' = [play EXCEPT !.pc = "check",
                                !.piper = IF started THEN "running" ELSE "failed",
                                !.pipe = IF started THEN "open" ELSE "broken",
                                !.err = IF started THEN "" ELSE "piper"]
    /\ UNCHANGED <<uiVars, recVars, taskVars, ttsVars, audio, ws, conf, pv>>

\* part_007 432-434: if err != nil, with the err that is there when it is
\* read: the one of piperCmd.Start or the one the goroutine wrote since.
PlayCheck ==
    /\ play.pc = "check"
    /\ play' = IF play.err # ""
               THEN [play EXCEPT !.pc = "returned", !.result = "failed to start piper"]
               ELSE [play EXCEPT !.pc = "select"]
    /\ UNCHANGED <<uiVars, recVars, taskVars, ttsVars, audio, ws, conf, pv>>

\* The subprocess has written its sound and closes its output.
PiperCloses ==
    /\ play.piper = "running"
    /\ play.pipe = "open"
    /\ play' = [play EXCEPT !.pipe = "eof"]
    /\ UNCHANGED <<uiVars, recVars, taskVars, ttsVars, audio, ws, conf, pv>>

\* main.go 516-519, 583-585: m.cancelSpeak() while Speak runs
PlayCancel ==
    /\ play.pc \in {"start", "check", "select", "wait"}
    /\ ~play.cancelled
    /\ play' = [play EXCEPT !.cancelled = TRUE]
    /\ UNCHANGED <<uiVars, recVars, taskVars, ttsVars, audio, ws, conf, pv>>

\* part_007 375-377: the context is done; the callback returns at once
CallbackSkipped ==
    [play EXCEPT !.block = PreSilenced, !.did = "skipped",
                 !.after = IF play.eofReached THEN Min(@ + 1, MaxSilence) ELSE @]

\* part_007 379-391: after the end of the stream the block is zeroed, the
\* count goes up, and from 4 on a send on playbackDone is tried; the send
\* passes only to a Speak that waits in its select (439-443).
CallbackSilence ==
    LET n == Min(play.silenceCallbacks + 1, MaxSilence)
        due == SignalDue(n)
        taken == due /\ play.pc = "select"
    IN  [play EXCEPT !.block = Block(0), !.did = "silence", !.silenceCallbacks = n,
                     !.after = Min(@ + 1, MaxSilence),
                     !.sent = taken,
                     !.dropped = @ \/ (due /\ ~taken),
                     !.pc = IF taken THEN "wait" ELSE @]

\* part_007 392-408: io.ReadFull fills the block, or comes to the end of the
\* stream after n bytes (io.EOF for none, io.ErrUnexpectedEOF for some), or
\* fails; in the last two cases the rest of the block is zeroed.
CallbackRead ==
    IF play.piper = "running" /\ play.left > 0
    THEN [play EXCEPT !.block = Block(BlockLen), !.did = "data", !.left = @ - 1]
    ELSE IF play.pipe = "eof"
    THEN [play EXCEPT !.block = Block(play.tail), !.did = "end", !.endN = play.tail,
                      !.tail = 0, !.eofReached = TRUE]
    ELSE [play EXCEPT !.block = Block(0), !.did = "end", !.endN = 0, !.eofReached = TRUE]

\* The device calls onSamples for one block after the other, from its start
\* until Speak returns and stops it (part_007 422-428).
DevicePlays ==
    /\ play.dev = "started"
    /\ play.pc \in {"start", "check", "select", "wait"}

\* part_007 375-392: the callback comes to its end without waiting when the
\* context is done or the end of the stream was met before; otherwise it is
\* in io.ReadFull, which returns once the block is full, the pipe is at its
\* end, or the read fails, and waits on a pipe that is open and has no more.
CallbackReturns ==
    \/ play.cancelled
    \/ play.eofReached
    \/ play.piper = "running" /\ play.left > 0
    \/ play.pipe \in {"eof", "broken"}

\* part_007 374-411: onSamples, from its call to its return.
Callback ==
    /\ DevicePlays
    /\ CallbackReturns
    /\ play' = IF play.cancelled THEN CallbackSkipped
               ELSE IF play.eofReached THEN CallbackSilence
               ELSE CallbackRead
    /\ UNCHANGED <<uiVars, recVars, taskVars, ttsVars, audio, ws, conf, pv>>

\* part_007 440-441: case <-piper_ctx.Done(): return nil
PlayCtxDone ==
    /\ play.pc = "select"
    /\ play.cancelled
    /\ play' = [play EXCEPT !.pc = "returned", !.result = "nil"]
    /\ UNCHANGED <<uiVars, recVars, taskVars, ttsVars, audio, ws, conf, pv>>

\* part_007 445-451: piperCmd.Wait(), which fails for a command that did not start
PlayWait(piperErr) ==
    /\ play.pc = "wait"
    /\ play.piper = "failed" => piperErr
    /\ play' = [play EXCEPT !.pc = "returned",
                            !.result = IF piperErr /\ ~play.cancelled THEN "piperErr" ELSE "nil"]
    /\ UNCHANGED <<uiVars, recVars, taskVars, ttsVars, audio, ws, conf, pv>>

NextPlay ==
    \/ \E ok \in BOOLEAN : DeviceStart(ok)
    \/ \E ok \in BOOLEAN : PiperStart(ok)
    \/ PlayCheck
    \/ PiperCloses
    \/ PlayCancel
    \/ Callback
    \/ PlayCtxDone
    \/ \E piperErr \in BOOLEAN : PlayWait(piperErr)

\* Speak, the goroutine and the device's callback thread are scheduled, and
\* the subprocess closes its output; nobody has to cancel.
SpecPlay ==
    /\ InitPlay
    /\ [][NextPlay]_vars
    /\ WF_vars(\E ok \in BOOLEAN : DeviceStart(ok))
    /\ WF_vars(\E ok \in BOOLEAN : PiperStart(ok))
    /\ WF_vars(PlayCheck)
    /\ WF_vars(PiperCloses)
    /\ WF_vars(Callback)
    /\ WF_vars(PlayCtxDone)
    /\ WF_vars(\E piperErr \in BOOLEAN : PlayWait(piperErr))

\* ---------------------------- package piper: FetchVoices and DownloadVoice
\* Names (voice keys, requested voices, languages) are sequences of characters.
onnx == <<".", "o", "n", "n", "x">>

\* The keys a catalog can hold: "de-an", "de-a", "de-al" and "fr-al".
KeySets ==
    LET an == <<"d", "e", "-", "a", "n">>
        a == <<"d", "e", "-", "a">>
        al == <<"d", "e", "-", "a", "l">>
        fr == <<"f", "r", "-", "a", "l">>
    IN  {{}, {an, al, fr}, {an, a, al}}

\* The voices DownloadVoice is asked for: "de-an.onnx", "de-an", "de-al.onnx",
\* "al" and "z".
VoiceNames ==
    {<<"d", "e", "-", "a", "n">> \o onnx, <<"d", "e", "-", "a", "n">>,
     <<"d", "e", "-", "a", "l">> \o onnx, <<"a", "l">>, <<"z">>}

\* strings.TrimRight(s, cutset): every trailing character that is in the
\* cutset is removed.
RECURSIVE TrimRightCutset(_, _)
TrimRightCutset(s, cutset) ==
    IF s # <<>> /\ s[Len(s)] \in cutset
    THEN TrimRightCutset(SubSeq(s, 1, Len(s) - 1), cutset)
    ELSE s

\* strings.HasPrefix, strings.TrimSuffix, strings.Contains
HasPrefix(s, prefix) == Len(s) >= Len(prefix) /\ SubSeq(s, 1, Len(prefix)) = prefix
TrimSuffix(s, suffix) ==
    IF Len(s) >= Len(suffix) /\ SubSeq(s, Len(s) - Len(suffix) + 1, Len(s)) = suffix
    THEN SubSeq(s, 1, Len(s) - Len(suffix))
    ELSE s
Contains(s, substr) ==
    \E i \in 0..(Len(s) - Len(substr)) : SubSeq(s, i + 1, i + Len(substr)) = substr

\* A map[string]VoiceInfo is its keys, and whether it is the nil map.
Nil == [nil |-> TRUE, keys |-> {}]

\* The bytes of a voices.json: not JSON, the JSON null, or a JSON object.
Docs ==
    {[kind |-> "malformed", keys |-> {}], [kind |-> "null", keys |-> {}]}
        \cup {[kind |-> "object", keys |-> K] : K \in KeySets}

\* part_007 58-64: MarshalVoices. json.Unmarshal of null into a map leaves the
\* map nil and reports no error.
MarshalVoices(doc) ==
    IF doc.kind = "malformed" THEN [voices |-> Nil, err |-> "parse"]
    ELSE IF doc.kind = "null" THEN [voices |-> Nil, err |-> ""]
    ELSE [voices |-> [nil |-> FALSE, keys |-> doc.keys], err |-> ""]

\* part_007 84-105: the remote GET. A call returns voices and err, leaves
\* `cached` in cachedVoices, and has made the accesses io: os.Stat,
\* os.ReadFile, http.Get.
FetchRemote(remote, io) ==
    LET failed(err) == [voices |-> Nil, err |-> err, cached |-> Nil, io |-> io]
        parsed == MarshalVoices(remote.doc)
    IN  IF remote.state = "transport" THEN failed("fetch")
        ELSE IF remote.state = "status" THEN failed("status")
        ELSE IF remote.state = "readfail" THEN failed("read")
        ELSE IF parsed.err # "" THEN failed("parse")
        ELSE [voices |-> parsed.voices, err |-> "", cached |-> parsed.voices, io |-> io]

\* part_007 68-106: FetchVoices
FetchVoices(cache, local, remote) ==
    LET parsed == MarshalVoices(local.doc)
    IN  IF ~cache.nil THEN [voices |-> cache, err |-> "", cached |-> cache, io |-> {}]
        ELSE IF local.state = "absent" THEN FetchRemote(remote, {"stat", "get"})
        ELSE IF local.state = "unreadable" \/ parsed.err # ""
             THEN FetchRemote(remote, {"stat", "read", "get"})
        ELSE [voices |-> parsed.voices, err |-> "", cached |-> parsed.voices,
              io |-> {"stat", "read"}]

\* part_007 229, 250-251: the files of a voice, and the name each is saved under
VoiceFiles(key) == {[dir |-> key, base |-> <<key, e>>] : e \in {"onnx", "json"}}
Base(filename) == filename.base

\* part_007 204: voiceKey := strings.TrimRight(voice, ".onnx")
VoiceKey(voice) == TrimRightCutset(voice, {onnx[i] : i \in DOMAIN onnx})

\* part_007 206-221: the exact lookup, else the first key of the range that
\* contains the requested voice and starts with the language.
ResolveKey(language, voice, voices) ==
    LET partial == {key \in voices.keys : Contains(key, voice) /\ HasPrefix(key, language)}
    IN  IF VoiceKey(voice) \in voices.keys
        THEN {[found |-> TRUE, key |-> VoiceKey(voice)]}
        ELSE IF partial # {} THEN {[found |-> TRUE, key |-> key] : key \in partial}
        ELSE {[found |-> FALSE, key |-> VoiceKey(voice)]}

\* The process starts with no catalog in memory and nothing downloaded.
\* <voicesDir>/voices.json is absent, there but not readable, or a file; the
\* answer to GET voicesURL is a transport error, a status other than 200, a
\* body that cannot be read, or a body.
InitVoices ==
    /\ InitProgram
    /\ audio = NoAudio
    /\ ws = NewWordsStore
    /\ conf = NoConf
    /\ play = NoPlay
    /\ \E local \in {"absent", "unreadable", "file"},
          remote \in {"transport", "status", "readfail", "ok"}, ldoc \in Docs, rdoc \in Docs :
          /\ local # "file" => ldoc.kind = "malformed"
          /\ remote # "ok" => rdoc.kind = "malformed"
          /\ pv = [pc |-> "idle", cachedVoices |-> Nil,
                local |-> [state |-> local, doc |-> ldoc],
                remote |-> [state |-> remote, doc |-> rdoc],
                disk |-> {}, fetches |-> 0,
                fetch |-> [had |-> Nil, voices |-> Nil, err |-> "", io |-> {}],
                loaded |-> [yes |-> FALSE, voices |-> Nil, at |-> 0],
                calls |-> 0, language |-> <<>>, voice |-> <<>>, voices |-> Nil,
                fetched |-> FALSE, found |-> FALSE, key |-> <<>>, todo |-> {},
                wrote |-> {}, attempts |-> 0, outcome |-> "ok", err |-> "", was |-> {}]

\* The package state after a FetchVoices call that returned r.
AfterFetch(r) ==
    [pv EXCEPT !.cachedVoices = r.cached,
               !.fetches = @ + 1,
               !.fetch = [had |-> pv.cachedVoices, voices |-> r.voices,
                          err |-> r.err, io |-> r.io],
               !.loaded = IF ~@.yes /\ r.err = ""
                          THEN [yes |-> TRUE, voices |-> r.voices, at |-> pv.fetches + 1]
                          ELSE @]

\* A call of FetchVoices from resolvePiperVoice or ListVoices.
CallFetchVoices ==
    /\ pv.fetches < MaxFetches
    /\ pv' = AfterFetch(FetchVoices(pv.cachedVoices, pv.local, pv.remote))
    /\ UNCHANGED <<uiVars, recVars, taskVars, ttsVars, audio, ws, conf, play>>

\* part_007 197-226: DownloadVoice up to the loop over the files
DownloadVoiceCall(language, voice, mkdirOk) ==
    /\ pv.pc \in {"idle", "returned"}
    /\ pv.calls < MaxVoiceCalls
    /\ LET r == FetchVoices(pv.cachedVoices, pv.local, pv.remote)
           p == [AfterFetch(r) EXCEPT !.calls = @ + 1, !.language = language,
                                      !.voice = voice, !.voices = r.voices,
                                      !.fetched = (r.err = ""), !.found = FALSE,
                                      !.key = <<>>, !.todo = {}, !.wrote = {},
                                      !.attempts = 0, !.outcome = "ok", !.err = "",
                                      !.was = pv.disk]
           failed(q, err) == [q EXCEPT !.pc = "returned", !.err = err]
       IN  IF r.err # "" THEN pv' = failed(p, r.err)
           ELSE \E res \in ResolveKey(language, voice, r.voices) :
                   LET q == [p EXCEPT !.found = res.found, !.key = res.key]
                   IN  IF ~res.found THEN pv' = failed(q, "voice not found")
                       ELSE IF ~mkdirOk THEN pv' = failed(q, "mkdir")
                       ELSE pv' = [q EXCEPT !.pc = "loop", !.todo = VoiceFiles(res.key)]
    /\ UNCHANGED <<uiVars, recVars, taskVars, ttsVars, audio, ws, conf, play>>

\* A loop that goes on to the next file after one that failed.
FileFailedSkipped(p, filename, outcome) ==
    [p EXCEPT !.todo = @ \ {filename}, !.attempts = @ + 1, !.outcome = outcome]

\* part_007 236-253: each failure returns the error from inside the loop
FileFailed(p, filename, outcome) ==
    [p EXCEPT !.pc = "returned", !.err = outcome, !.attempts = @ + 1,
              !.outcome = outcome]

\* part_007 233-254 with saveToFile 108-121: one pass of the loop, over a file
\* the range has not visited yet. The file is fetched, read and written, or
\* http.Get fails, the status is not 200, io.ReadAll fails, saveToFile fails.
DownloadFile(filename, outcome) ==
    /\ pv.pc = "loop"
    /\ filename \in pv.todo
    /\ pv' = IF outcome = "ok"
             THEN [pv EXCEPT !.disk = @ \cup {Base(filename)},
                             !.wrote = @ \cup {filename},
                             !.todo = @ \ {filename}, !.attempts = @ + 1]
             ELSE FileFailed(pv, filename, outcome)
    /\ UNCHANGED <<uiVars, recVars, taskVars, ttsVars, audio, ws, conf, play>>

\* part_007 257: return nil once the range is over
DownloadReturn ==
    /\ pv.pc = "loop"
    /\ pv.todo = {}
    /\ pv' = [pv EXCEPT !.pc = "returned", !.err = ""]
    /\ UNCHANGED <<uiVars, recVars, taskVars, ttsVars, audio, ws, conf, play>>

NextVoices ==
    \/ CallFetchVoices
    \/ \E language \in {<<"d", "e">>, <<"f", "r">>}, voice \in VoiceNames, mkdirOk \in BOOLEAN :
          DownloadVoiceCall(language, voice, mkdirOk)
    \/ \E filename \in UNION {VoiceFiles(key) : key \in UNION KeySets},
          outcome \in {"ok", "transport", "status", "read", "write"} :
          DownloadFile(filename, outcome)
    \/ DownloadReturn

SpecVoices == InitVoices /\ [][NextVoices]_vars

\* ------------------------------- the Recorder, one recording at a time
\* A caller that starts a recording once the Start call before has returned.
CallStart ==
    /\ Idle
    /\ Len(starts) < MaxCycles
    /\ \A i \in 1..Len(starts) : starts[i].pc \in {"failed", "returned"}
    /\ starts' = Append(starts, [pc |-> "init", ch |-> -1])
    /\ last' = Pressed("Start", 0)
    /\ UNCHANGED libVars
    /\ UNCHANGED <<status, content, focusRow, focusWord, cancelSpeak, uiPc, taskVars, ttsVars,
                   recording, Content, sinceStopped, chanGen, finishedClosed>>

\* part_000 135-139: Stop returns at once when r.recording is false, and goes
\* on to send on r.done when it is true.
CallStop ==
    /\ Idle
    /\ IF recording
       THEN uiPc' = "stop_send" /\ last' = Pressed("Stop", 0)
       ELSE uiPc' = uiPc /\ last' = Pressed("Stop:noop", 0)
    /\ UNCHANGED libVars
    /\ UNCHANGED <<status, content, focusRow, focusWord, cancelSpeak, taskVars, ttsVars, recVars>>

\* What Start and Stop do by themselves once called.
CycleTasks ==
    \/ \E i \in 1..Len(starts) : StartInitFail(i)
    \/ \E i \in 1..Len(starts) : StartRecording(i)
    \/ \E i \in 1..Len(starts) : StartWaitDone(i)
    \/ \E i \in 1..Len(starts) : StartStore(i)
    \/ \E i \in 1..Len(starts) : StartClose(i)
    \/ \E i \in 1..Len(starts) : StopSend(i)
    \/ StopReturn

NextCycle ==
    \/ CallStart
    \/ CallStop
    \/ Tick
    \/ \E i \in 1..Len(starts) : StartInitFail(i)
    \/ \E i \in 1..Len(starts) : StartRecording(i)
    \/ \E i \in 1..Len(starts) : StartWaitDone(i)
    \/ \E i \in 1..Len(starts) : StartStore(i)
    \/ \E i \in 1..Len(starts) : StartClose(i)
    \/ \E i \in 1..Len(starts) : StopSend(i)
    \/ StopReturn

\* The goroutine of Start and the caller of Stop are scheduled: a step of
\* theirs that stays possible is taken.
SpecCycle == Init /\ [][NextCycle]_vars /\ WF_vars(CycleTasks)

\* ============================================================ properties
\* A Start call is in flight once its command is issued and until it returns.
StartInFlight(i) == starts[i].pc \notin {"failed", "returned"}
\* PiperVoice.Speak has begun and not returned.
SpeakActive(i) == speaks[i].pc \in {"open", "piperStart", "select", "wait"}

\* C1: while the recorder is recording and the status shows "Recording", or
\* the voice is speaking and the status shows "Speaking", handling a
\* StatusChanged message leaves the status as it is.
C1_StatusPrecedence ==
    [][\A m \in msgs :
          (/\ UpdateStatusChanged(m)
           /\ \/ recording /\ status = "Recording"
              \/ speaking /\ status = "Speaking")
          => status' = status]_vars

\* C2: at most one Recorder.Start call is in flight at any time.
C2_OneStartInFlight ==
    Cardinality({i \in 1..Len(starts) : StartInFlight(i)}) <= 1

\* The message of command src was sent and the event loop has handled it.
Sent(src) == \E m \in msgs : m.src = src
HandledTranscriptions ==
    {j \in 1..Len(transcribes) : transcribes[j].pc = "done" /\ ~Sent(<<"transcribe", j>>)}
HandledCompletions ==
    {j \in 1..Len(llms) : llms[j].pc = "text" /\ ~Sent(<<"llm", j>>)}
HandledDownloads ==
    {j \in 1..Len(downloads) : downloads[j].pc = "ok" /\ ~Sent(<<"download", j>>)}

\* C3: the steps of a turn are ordered. The i-th transcription command exists
\* only once the i-th Stop has returned, that is after Start closed the
\* finished channel of that recording; every completion command was issued
\* by the handler of one TranscriptionReceived message, one command per
\* message; every Speak command was issued by the handler of one
\* ReadyCompletion message (of a completion or of a download), one per message.
C3_StepsOrdered ==
    /\ Len(transcribes) = chanGen
    /\ \A i \in 1..Len(transcribes) : transcribes[i].stops = i /\ (i - 1) \in finishedClosed
    /\ \A i \in 1..Len(llms) : llms[i].src[1] = "transcribe" /\ llms[i].src[2] \in HandledTranscriptions
    /\ \A i, j \in 1..Len(llms) : llms[i].src = llms[j].src => i = j
    /\ Len(llms) = Cardinality(HandledTranscriptions)
    /\ \A i \in 1..Len(speaks) :
          \/ speaks[i].src[1] = "llm" /\ speaks[i].src[2] \in HandledCompletions
          \/ speaks[i].src[1] = "download" /\ speaks[i].src[2] \in HandledDownloads
    /\ \A i, j \in 1..Len(speaks) : speaks[i].src = speaks[j].src => i = j
    /\ Len(speaks) = Cardinality(HandledCompletions) + Cardinality(HandledDownloads)

\* A turn that went from the recording to the speech subprocess.
C3_Witness ==
    \E i \in 1..Len(speaks) : speaks[i].proc /\ speaks[i].src[1] = "llm" /\ Len(transcribes) = 1

\* C4: once Esc, or a ctrl+b that starts a recording, has been handled, every
\* Speak call in flight has a cancelled context.
C4_KeysCancelAllSpeech ==
    last.kind \in {"esc", "ctrl+b:start"}
        => \A i \in 1..Len(speaks) : speaks[i].pc # "returned" => Cancelled(i)

\* C5: a Speak call whose context was cancelled after the call began and
\* before it returned sends no StatusChanged message, "Failed to speak" or
\* other. Taken where the last key handled is the one that cancelled it.
C5_CancelIsSilent ==
    [][\A i \in 1..Len(speaks) :
          (/\ last.invoked = i
           /\ last.at \in {"open", "piperStart", "select", "wait"}
           \* the call returns in this step and nothing but a cancellation can
           \* be the cause
           /\ \/ SpeakPiperStart(i, TRUE)
              \/ SpeakCancelled(i)
              \/ \E piperErr \in BOOLEAN : SpeakWait(i, piperErr))
          => ~\E m \in msgs' : m.src = <<"speak", i>> /\ m.type = "StatusChanged"]_vars

\* C10: of two Speak calls that are active together, the earlier one has been cancelled.
C10_OneSpeakActive ==
    \A i, j \in 1..Len(speaks) :
        (i < j /\ SpeakActive(i) /\ SpeakActive(j)) => Cancelled(i)

\* The number of "AI: " entries in the transcript.
RECURSIVE CountAI(_)
CountAI(c) ==
    IF Len(c) < Len(AIPrefix) THEN 0
    ELSE (IF SubSeq(c, 1, Len(AIPrefix)) = AIPrefix THEN 1 ELSE 0) + CountAI(Tail(c))

\* C6: a Speak call gets past the model lookup only when the model file is
\* there; one that finds it missing returns ErrorModelNotFound without having
\* started the subprocess, and its command sends DownloadModel with the same
\* text; the download carries that text on, and when it succeeds sends
\* ReadyCompletion with that text and addContent = false, which is the text
\* of the Speak command that follows; the transcript holds one "AI:" entry
\* per completion handled, whatever the number of download rounds.
C6_ModelNotFoundRetry ==
    /\ \A i \in 1..Len(speaks) :
          /\ (speaks[i].proc \/ speaks[i].pc \in {"piperStart", "select", "wait"}) => modelPresent
          /\ speaks[i].err = "error" => modelPresent
          /\ speaks[i].err = "ModelNotFound" => ~speaks[i].proc
          /\ speaks[i].src[1] = "download" => speaks[i].text = downloads[speaks[i].src[2]].text
    /\ \A m \in msgs :
          /\ (m.src[1] = "speak" /\ speaks[m.src[2]].err = "ModelNotFound")
                => m.type = "DownloadModel" /\ m.text = speaks[m.src[2]].text
          /\ m.type = "DownloadModel" => speaks[m.src[2]].err = "ModelNotFound"
          /\ (m.src[1] = "download" /\ m.type = "ReadyCompletion")
                => ~m.add /\ m.text = downloads[m.src[2]].text
    /\ \A j \in 1..Len(downloads) : downloads[j].text = speaks[downloads[j].src[2]].text
    /\ CountAI(content) = Cardinality(HandledCompletions)

\* After two download rounds the text is spoken, with one "AI:" entry.
C6_Witness ==
    /\ Len(downloads) >= 2
    /\ \E i \in 1..Len(speaks) : speaks[i].src = <<"download", 2>> /\ speaks[i].proc
    /\ CountAI(content) = 1

\* The event loop handles ctrl+b.
CtrlBStep == KeyCtrlB(MaxStarts) \/ KeyCtrlB(MaxTurnStarts)

\* C7 as stated: a ctrl+b handled less than a second after Stopped changes
\* nothing: no recording starts, none stops, the status, the transcript and
\* the focus stay, and the speech in flight is not cancelled.
C7_DebouncedCtrlBChangesNothing ==
    [][(CtrlBStep /\ sinceStopped < Second)
          => UNCHANGED <<status, content, focusRow, focusWord, cancelSpeak, uiPc,
                         recVars, taskVars, ttsVars>>]_vars

\* C7 as amended: a ctrl+b handled less than a second after Stopped starts no
\* recording and stops none, and leaves the status, the transcript and the
\* focus as they are; the context of the cancel handle, if there is one, is
\* cancelled, and no other Speak call is touched.
C7_DebouncedCtrlBOnlyCancels ==
    [][(CtrlBStep /\ sinceStopped < Second)
          => /\ UNCHANGED <<status, content, focusRow, focusWord, cancelSpeak, uiPc,
                            recVars, taskVars, speaking, modelPresent>>
             /\ Len(speaks') = Len(speaks)
             /\ \A i \in 1..Len(speaks) :
                   speaks'[i] = IF i = cancelSpeak THEN [speaks[i] EXCEPT !.cancelled = TRUE]
                                ELSE speaks[i]]_vars

\* A debounced ctrl+b cancelled a Speak call that was under way.
C7_Witness ==
    /\ last.kind = "ctrl+b:ignored"
    /\ last.at \in {"open", "piperStart", "select", "wait"}
    /\ speaks[last.invoked].cancelled
    /\ sinceStopped < Second

\* The index of the last word of a row.
LastWord(row) == Len(Words(row)) - 1

\* C8: k at row 0 and j at the last row leave the focus where it is, and j
\* does not fault; otherwise j and k move the focus row by one and clamp the
\* focus word to the last word of the new row.
C8_RowKeys ==
    [][LET rows == Rows(content)
           N == Len(rows)
       IN  /\ KeyK => IF focusRow = 0 THEN UNCHANGED <<focusRow, focusWord>>
                      ELSE /\ focusRow' = focusRow - 1
                           /\ focusWord' = Min(focusWord, LastWord(rows[focusRow' + 1]))
           /\ KeyJ => /\ uiPc' # "panic"
                      /\ IF focusRow = N - 1 THEN UNCHANGED <<focusRow, focusWord>>
                         ELSE /\ focusRow' = focusRow + 1
                              /\ focusWord' = Min(focusWord, LastWord(rows[focusRow' + 1]))]_vars

\* C9: with the focus on a word of the transcript, w at the last word of a
\* row goes to word 0 of the next row and is a no-op on the last row; b at
\* word 0 goes to the last word of the previous row and is a no-op on row 0;
\* otherwise w and b move the focus word by one within the row.
C9_WordKeys ==
    [][LET rows == Rows(content)
           N == Len(rows)
       IN  (InRange(focusRow, rows) /\ 0 <= focusWord /\ focusWord <= LastWord(rows[focusRow + 1]))
           => /\ KeyW => IF focusWord < LastWord(rows[focusRow + 1])
                         THEN focusRow' = focusRow /\ focusWord' = focusWord + 1
                         ELSE IF focusRow < N - 1
                         THEN focusRow' = focusRow + 1 /\ focusWord' = 0
                         ELSE UNCHANGED <<focusRow, focusWord>>
              /\ KeyB => IF focusWord > 0
                         THEN focusRow' = focusRow /\ focusWord' = focusWord - 1
                         ELSE IF focusRow > 0
                         THEN focusRow' = focusRow - 1 /\ focusWord' = LastWord(rows[focusRow])
                         ELSE UNCHANGED <<focusRow, focusWord>>]_vars


\* An unsigned little-endian field of 2 or 4 bytes at offset off of buffer b
U16(b, off) == b[off + 1] + 256 * b[off + 2]
U32(b, off) == b[off + 1] + 256 * b[off + 2] + 65536 * b[off + 3] + 16777216 * b[off + 4]

\* C16: for n samples the buffer has 44 + 2n bytes, its RIFF size field is
\* 36 + 2n and its data size field is 2n; with no sample it has 44 bytes.
C16_WavSizes ==
    audio.pc = "encoded"
        => LET n == Len(audio.samples)
           IN  /\ Len(audio.wav) = 44 + 2 * n
               /\ U32(audio.wav, 4) = 36 + 2 * n
               /\ U32(audio.wav, 40) = 2 * n

\* An empty recording was encoded to 44 bytes.
C16_Witness ==
    audio.pc = "encoded" /\ audio.raw = <<>> /\ Len(audio.wav) = 44

\* C17: the bytes after the header, read as little-endian int16, are the
\* samples; and for captured bytes of even length they are the captured bytes.
C17_WavRoundTrip ==
    audio.pc = "encoded"
        => /\ [i \in 1..((Len(audio.wav) - wavHeaderSize) \div 2) |->
                  Int16(U16(audio.wav, wavHeaderSize + 2 * (i - 1)))] = audio.samples
           /\ Len(audio.raw) % 2 = 0
                 => SubSeq(audio.wav, wavHeaderSize + 1, Len(audio.wav)) = audio.raw

\* Two samples, one of them negative, went through.
C17_Witness ==
    /\ audio.pc = "encoded"
    /\ Len(audio.raw) = 4
    /\ \E i \in 1..Len(audio.samples) : audio.samples[i] < 0
    /\ \E i \in 1..Len(audio.samples) : audio.samples[i] > 255

\* The header fields other than the two sizes.
HeaderFields(b, rate, chans) ==
    /\ SubSeq(b, 1, 4) = <<82, 73, 70, 70>>
    /\ SubSeq(b, 9, 12) = <<87, 65, 86, 69>>
    /\ SubSeq(b, 13, 16) = <<102, 109, 116, 32>>
    /\ U32(b, 16) = 16
    /\ U16(b, 20) = 1
    /\ U16(b, 22) = chans
    /\ U32(b, 24) = rate
    /\ U32(b, 28) = rate * chans * 2
    /\ U16(b, 32) = chans * 2
    /\ U16(b, 34) = 16
    /\ SubSeq(b, 37, 40) = <<100, 97, 116, 97>>

RECURSIVE FirstAdded(_)
FirstAdded(adds) ==
    IF adds = <<>> THEN <<>>
    ELSE LET before == FirstAdded(SubSeq(adds, 1, Len(adds) - 1))
             word == adds[Len(adds)][1]
         IN  IF \E i \in 1..Len(before) : before[i] = word THEN before ELSE Append(before, word)

\* One line per word of a list of words, each with the meaning given by the
\* last Add call of the word
RECURSIVE ExpectedLines(_, _)
ExpectedLines(order, adds) ==
    IF order = <<>> THEN <<>>
    ELSE LET last_i == CHOOSE i \in 1..Len(adds) :
                          /\ adds[i][1] = Head(order)
                          /\ \A j \in (i + 1)..Len(adds) : adds[j][1] # Head(order)
         IN  Line(Head(order), adds[last_i][2]) \o ExpectedLines(Tail(order), adds)

\* C19: List returns one line "<word>: <translation>" per distinct word
\* added, in the order of first insertion, each with the translation written
\* last; adding a word again changes neither the order nor the number of
\* words.
C19_ListAfterAdds ==
    LET seen == SubSeq(ws.adds, 1, ws.listed.n)
    IN  /\ ws.listed.out = ExpectedLines(FirstAdded(seen), seen)
        /\ ws.order = FirstAdded(ws.adds)
        /\ Len(ws.order) = Cardinality({ws.adds[i][1] : i \in 1..Len(ws.adds)})

\* A word was added, then another, then the first again with another
\* translation, and the list was taken.
C19_Witness ==
    /\ Len(ws.adds) = 3
    /\ ws.listed.n = 3
    /\ ws.adds[1][1] = ws.adds[3][1]
    /\ ws.adds[1][2] # ws.adds[3][2]
    /\ ws.adds[2][1] # ws.adds[1][1]

\* C20: a file that sets only "language", with the provider answering 200,
\* loads to a configuration whose target language, translate URL and TTS
\* type are the defaults and in which no field that has a default is empty.
C20_OnlyLanguageSet ==
    (/\ conf.pc = "returned"
     /\ conf.status = 200
     /\ conf.was.language # ""
     /\ \A f \in DOMAIN conf.was : f # "language" => conf.was[f] = "")
        => /\ conf.err = ""
           /\ conf.out.target = NewConfig.target
           /\ conf.out.libre = NewConfig.libre
           /\ conf.out.ttsType = NewConfig.ttsType
           /\ \A f \in DOMAIN conf.out : conf.out[f] # ""

\* Speak call i returns in this step.
Returns(i) == speaks[i].pc # "returned" /\ speaks'[i].pc = "returned"

\* C12: the speaking flag is set when a Speak call begins, is cleared when
\* the call returns, whatever the exit, and is cleared by nothing but the
\* return of a Speak call.
C12_SpeakingWhileSpeak ==
    [][/\ \A i \in 1..Len(speaks) :
             /\ SpeakBegin(i) => speaking'
             /\ Returns(i) => ~speaking'
       /\ (speaking /\ ~speaking') => \E i \in 1..Len(speaks) : Returns(i)
       /\ (~speaking /\ speaking') => \E i \in 1..Len(speaks) : SpeakBegin(i)]_vars

\* A call returned for want of the model, a later one failed, and the flag is down.
C12_Witness ==
    /\ ~speaking
    /\ \E i, j \in 1..Len(speaks) :
          /\ speaks[i].pc = "returned" /\ speaks[i].err = "ModelNotFound"
          /\ speaks[j].pc = "returned" /\ speaks[j].err = "error"

\* C13: piperCmd.Wait is reached only once the playback-completion signal
\* has been received, and a call that takes the cancellation case of the
\* select returns without reaching it.
C13_WaitAfterPlaybackDone ==
    [][\A i \in 1..Len(speaks) :
          /\ speaks'[i].pc = "wait" => speaks'[i].done
          /\ (\E piperErr \in BOOLEAN : SpeakWait(i, piperErr)) => speaks[i].done
          /\ SpeakCancelled(i) => speaks'[i].pc = "returned" /\ ~speaks'[i].done]_vars

\* A call waited for the subprocess after the signal, and returned.
C13_Witness ==
    \E i \in 1..Len(speaks) :
        speaks[i].pc = "returned" /\ speaks[i].done /\ speaks[i].proc /\ speaks[i].err = "nil"

\* C14: once q or ctrl+c has been handled, the context of the cancel handle
\* the model held is cancelled.
C14_QuitCancelsSpeech ==
    (uiPc = "quit" /\ cancelSpeak # 0) => Cancelled(cancelSpeak)

\* C15: the message of a Speak command follows the error Speak returned:
\* ErrorModelNotFound gives DownloadModel with the model, the language and
\* the text; another error gives StatusChanged "Failed to speak"; no error
\* gives StatusChanged "Ready"; and every return sends one such message.
C15_SpeakOutcome ==
    [][\A i \in 1..Len(speaks) :
          Returns(i) =>
             \E m \in msgs' \ msgs :
                /\ msgs' = msgs \cup {m}
                /\ m.src = <<"speak", i>>
                /\ speaks'[i].err = "ModelNotFound"
                      => /\ m.type = "DownloadModel"
                         /\ m.text = speaks[i].text
                         /\ m.model = "de_DE-karlsson-low.onnx"
                         /\ m.language = "de"
                /\ speaks'[i].err = "error"
                      => m.type = "StatusChanged" /\ m.status = "Failed to speak"
                /\ speaks'[i].err = "nil"
                      => m.type = "StatusChanged" /\ m.status = "Ready"]_vars

\* A call returned ErrorModelNotFound, and the call made after the download
\* completed: its "Ready" is on its way to the event loop.
C15_Witness ==
    /\ \E i \in 1..Len(speaks) : speaks[i].pc = "returned" /\ speaks[i].err = "ModelNotFound"
    /\ \E m \in msgs : m.src[1] = "speak" /\ m.type = "StatusChanged" /\ m.status = "Ready"

\* C11: Stop does nothing when the recorder is not recording. When it is,
\* Stop returns only once the Start call that took its signal has stored the
\* WAV, cleared the flag, set Stopped and returned; the channels the
\* recorder holds after that are new ones, neither closed nor waited on; and
\* a Stop that goes on to send always returns, cycle after cycle.
C11_StopCycles ==
    /\ [][(CallStop /\ ~recording) => UNCHANGED <<recVars, uiPc>>]_vars
    /\ [][StopReturn =>
             /\ \E i \in 1..Len(starts) :
                   /\ starts[i].pc = "returned"
                   /\ starts[i].ch = chanGen
                   /\ Content = i
             /\ ~recording
             /\ chanGen' \notin finishedClosed'
             /\ \A i \in 1..Len(starts') : starts'[i].ch # chanGen']_vars
    /\ (uiPc = "stop_send") ~> (uiPc = "idle" /\ ~recording)

\* Two recordings were made and stopped, one after the other.
C11_Witness ==
    /\ Len(starts) = 2
    /\ starts[1].pc = "returned"
    /\ starts[2].pc = "returned"
    /\ chanGen = 2
    /\ Content = 2
    /\ uiPc = "idle"

C22_ValidationOutcome ==
    conf.pc = "returned" =>
        /\ conf.had = "config" =>
              /\ conf.status = 200 => conf.err = ""
              /\ conf.status = 401 => conf.err = "Invalid API key"
              /\ conf.status \notin {0, 200, 401} => conf.err = "Invalid model"
              /\ conf.err # "" => conf.out = NewConfig /\ ~conf.fetched
        /\ conf.had = "malformed" =>
              /\ conf.err = "json"
              /\ conf.out = NewConfig
              /\ ~conf.fetched

\* A file without a voice, refused with 401: the defaults come back, and the
\* catalog that would have named a voice was not asked.
C22_Witness ==
    /\ conf.pc = "returned"
    /\ conf.had = "config"
    /\ conf.status = 401
    /\ conf.was.ttsVoice = ""
    /\ conf.was.language = "fr"
    /\ conf.catalog.ok
    /\ conf.out = NewConfig
    /\ conf.err = "Invalid API key"

\* C23: a transcription that failed sends no message, so no
\* TranscriptionReceived is handled for it, no LLM call is made for it and the
\* transcript gets no entry from it; the failure touches neither the event
\* loop nor the recorder, and a ctrl+b handled after it, with the recorder
\* idle and the debounce over, starts a recording.
C23_FailedTranscriptionAbandons ==
    /\ [][\A i \in 1..Len(transcribes) :
             TranscribeFail(i) => UNCHANGED <<uiVars, recVars, msgs, llms>>]_vars
    /\ [](\A i \in 1..Len(transcribes) :
             transcribes[i].pc = "failed" =>
                /\ ~Sent(<<"transcribe", i>>)
                /\ \A j \in 1..Len(llms) : llms[j].src # <<"transcribe", i>>)
    /\ []((\A i \in 1..Len(transcribes) : transcribes[i].pc = "failed")
             => Len(llms) = 0 /\ content = <<>>)
    /\ [][(/\ \E i \in 1..Len(transcribes) : transcribes[i].pc = "failed"
           /\ CtrlBStep
           /\ ~CtrlBDebounced
           /\ ~recording)
          => Len(starts') = Len(starts) + 1 /\ status' = "Recording"]_vars

\* The only turn so far failed at the transcription, and a second recording is under way.
C23_Witness ==
    /\ Len(transcribes) = 1
    /\ transcribes[1].pc = "failed"
    /\ Len(starts) = 2
    /\ starts[1].pc = "returned"
    /\ starts[2].pc = "waiting"
    /\ recording
    /\ status = "Recording"
    /\ content = <<>>

\* C24: a chain call that fails sends StatusChanged "Failed get completion",
\* a result without a text sends StatusChanged "No completion", and neither
\* sends anything else: no Speak call is made for that completion, and the
\* transcript holds no more "AI: " entries than completions that had a text.
C24_FailedCompletionEndsTurn ==
    /\ [][\A j \in 1..Len(llms) :
             /\ (\E t \in ReplyTexts : GetLlmCompletion(j, "error", t)) =>
                   \E m \in msgs' : /\ m.src = <<"llm", j>>
                                    /\ m.type = "StatusChanged"
                                    /\ m.status = "Failed get completion"
             /\ (\E t \in ReplyTexts : GetLlmCompletion(j, "notext", t)) =>
                   \E m \in msgs' : /\ m.src = <<"llm", j>>
                                    /\ m.type = "StatusChanged"
                                    /\ m.status = "No completion"]_vars
    /\ [](\A j \in 1..Len(llms) :
             llms[j].pc \in {"error", "notext"} =>
                /\ \A m \in msgs : m.src = <<"llm", j>> => m.type = "StatusChanged"
                /\ \A k \in 1..Len(speaks) : speaks[k].src # <<"llm", j>>)
    /\ []((\A j \in 1..Len(llms) : llms[j].pc \in {"new", "error", "notext"})
             => Len(speaks) = 0 /\ CountAI(content) = 0)

\* A completion without a text was reported and the status shows it; nothing was spoken.
C24_Witness ==
    /\ Len(llms) = 1
    /\ llms[1].pc = "notext"
    /\ status = "No completion"
    /\ Len(speaks) = 0
    /\ CountAI(content) = 0
    /\ msgs = {}

\* C25: a Start call that fails to make or start the audio context or the
\* capture device returns with the error and leaves the recorder as it was:
\* the flag false, Content and Stopped as before, the channels the same ones,
\* not signalled and not closed. Start calls are made one after the other.
C25_FailedStartLeavesRecorder ==
    /\ [][\A i \in 1..Len(starts) :
             StartInitFail(i) =>
                /\ starts'[i].pc = "failed"
                /\ ~recording /\ ~recording'
                /\ UNCHANGED <<Content, sinceStopped, chanGen, finishedClosed, uiPc>>
                /\ chanGen \notin finishedClosed']_vars
    /\ [](\A i \in 1..Len(starts) :
             starts[i].pc = "failed" => starts[i].ch = -1)

\* After a recording made and stopped, a second Start failed: Content is
\* still the first recording and the channels are the ones Stop made.
C25_Witness ==
    /\ Len(starts) = 2
    /\ starts[1].pc = "returned"
    /\ starts[2].pc = "failed"
    /\ Content = 1
    /\ chanGen = 1
    /\ finishedClosed = {0}
    /\ ~recording

\* C26: a Stop called by the ctrl+b handler returns. While it is at its send
\* on the stop channel some Start call receives or can still come to receive
\* on that channel, and while it waits for the completion channel that
\* channel is closed or a Start call is about to close it.
C26_StopReturns ==
    /\ uiPc = "stop_send" =>
           \E i \in 1..Len(starts) :
              \/ starts[i].pc \in {"init", "armed"}
              \/ starts[i].pc = "waiting" /\ starts[i].ch = chanGen
    /\ uiPc = "stop_wait" =>
           \/ FinishedReceived
           \/ \E i \in 1..Len(starts) : starts[i].pc \in {"stopping", "closing"}

\* C27: whatever keys j, k, w, b and messages have been handled, the focus row
\* is a row of the transcript, the focus word is a word of that row, and no
\* handler has indexed a row or a word out of range.
C27_FocusInRange ==
    /\ uiPc # "panic"
    /\ InRange(focusRow, Rows(content))
    /\ InRange(focusWord, Words(Rows(content)[focusRow + 1]))

\* C29: the round DownloadModel, ReadyCompletion(addContent = false), Speak
\* comes to an end: a Speak call retried after a download that reported
\* success does not return ErrorModelNotFound again, so no further
\* DownloadModel follows it.
C29_RetryCycleEnds ==
    \A i \in 1..Len(speaks) :
        (speaks[i].src[1] = "download" /\ downloads[speaks[i].src[2]].pc = "ok")
            => /\ speaks[i].err # "ModelNotFound"
               /\ ~\E m \in msgs : m.src = <<"speak", i>> /\ m.type = "DownloadModel"

\* C28: every Speak call returns in the end, the subprocess closing its
\* output or the context being cancelled: also when the signal was first
\* tried before Speak waited for it, and when the playback device did not start.
C28_SpeakReturns == <>(play.pc = "returned")

\* C30: a callback after the end of the stream leaves an all-zero block, the
\* callback that meets the end leaves zeros after the bytes it read, the
\* completion signal passes only in a callback after the end of the stream,
\* with all of the stream read, and not before 4 all-silence callbacks have
\* come after the callback that met the end.
C30_SilenceBeforeDone ==
    [][Callback =>
          /\ play.eofReached => play'.block = Block(0)
          /\ (~play.eofReached /\ play'.eofReached) =>
                /\ play'.endN \in 0..(BlockLen - 1)
                /\ \A i \in (play'.endN + 1)..BlockLen : play'.block[i] = 0
                /\ ~play'.sent
          /\ play'.did = "data" => ~play'.sent /\ ~play'.eofReached
          /\ play'.sent =>
                /\ play.eofReached
                /\ play'.after >= 4
                \* no byte the subprocess wrote, or has yet to write, is unread
                /\ (play.piper = "running" => play.left * BlockLen + play.tail = 0)]_vars

\* The stream ended in the middle of a block and the signal passed at the
\* fourth silence callback after it.
C30_Witness ==
    /\ play.pc = "wait"
    /\ play.sent
    /\ play.endN = 1
    /\ play.after = 4
    /\ play.silenceCallbacks = 4

\* C31: the playback callback never blocks: whenever the device calls it, it
\* comes to its end without waiting for the subprocess to write more.
C31_CallbackNeverWaits == DevicePlays => CallbackReturns

\* C32: IsSpeaking is true exactly when some Speak call has begun and not returned.
C32_SpeakingIffSpeakActive ==
    speaking <=> \E i \in 1..Len(speaks) : SpeakActive(i)

\* C33: while the status shows "Recording" a Start call is in flight.
C33_RecordingStatusHasStart ==
    status = "Recording" => \E i \in 1..Len(starts) : StartInFlight(i)

\* C34: the audio a transcription command sends is the WAV of the recording
\* that the ctrl+b which issued the command stopped: the Start call that took
\* the stop signal on the channels that Stop then replaced.
C34_TranscribesStoppedRecording ==
    \A i \in 1..Len(transcribes) :
        transcribes[i].pc # "new" =>
            /\ transcribes[i].audio \in 1..Len(starts)
            /\ starts[transcribes[i].audio].ch = transcribes[i].stops - 1

\* C35: GetConfig returns a nil error only after the validation request was
\* made and answered 200, whether the file existed or was just created.
\* isValid is called only on the path that read an existing file (part_005
\* 337-341), so the request was made exactly when a config file was there.
C35_NilErrorOnlyAfter200 ==
    (conf.pc = "returned" /\ conf.err = "") =>
        (conf.had = "config" /\ isValid(conf.status) = "")

\* C36: with the piper backend and no voice in the file, the voice returned is
\* "<key>.onnx" for the first catalog entry, in iteration order, of the
\* configured language's family, with the language unchanged; without a match
\* or without a catalog, the voice and the language are the built-in defaults.
C36_FirstMatchResolved ==
    (conf.pc = "returned" /\ conf.err = "" /\ conf.had = "config" /\ Fetches(conf.was)) =>
        LET order == conf.catalog.order
            matches == {i \in 1..Len(order) : order[i].family = conf.was.language}
            begin == CHOOSE i \in matches : \A j \in matches : i <= j
        IN  IF conf.catalog.ok /\ matches # {}
            THEN /\ conf.out.ttsVoice = order[begin].key \o ".onnx"
                 /\ conf.out.language = conf.was.language
            ELSE /\ conf.out.ttsVoice = NewConfig.ttsVoice
                 /\ conf.out.language = NewConfig.language

\* C37: DownloadVoice takes as key the requested name without a trailing
\* ".onnx", nothing else removed, when the catalog has that key; otherwise a
\* key that contains the requested name and starts with the language; and
\* when there is neither it fails with "voice not found" and downloads nothing.
C37_ResolvesKey ==
    (pv.pc # "idle" /\ pv.fetched) =>
        LET want == TrimSuffix(pv.voice, onnx)
            partial == {key \in pv.voices.keys :
                           Contains(key, pv.voice) /\ HasPrefix(key, pv.language)}
        IN  IF want \in pv.voices.keys THEN pv.found /\ pv.key = want
            ELSE IF partial # {} THEN pv.found /\ pv.key \in partial
            ELSE /\ ~pv.found
                 /\ pv.pc = "returned"
                 /\ pv.err = "voice not found"
                 /\ pv.wrote = {}
                 /\ pv.disk = pv.was

\* C38: DownloadVoice returns the error at the first file that cannot be
\* fetched, read or written and tries no file after it; it returns nil only
\* when every file of the voice has been written to the voices directory; the
\* files written before a failure, and those of earlier calls, stay on disk.
C38_FailsAtFirstErrorNoRollback ==
    /\ (pv.pc = "returned" /\ pv.err = "") =>
           /\ pv.found
           /\ \A filename \in VoiceFiles(pv.key) :
                  filename \in pv.wrote /\ Base(filename) \in pv.disk
    /\ pv.outcome # "ok" =>
           /\ pv.pc = "returned"
           /\ pv.err = pv.outcome
           /\ pv.attempts = Cardinality(pv.wrote) + 1
    /\ \A filename \in pv.wrote : Base(filename) \in pv.disk
    /\ pv.was \subseteq pv.disk

\* A call that wrote one file and returned the error of the next one.
C38_Witness ==
    /\ pv.pc = "returned"
    /\ pv.outcome \in {"transport", "status", "read", "write"}
    /\ pv.err = pv.outcome
    /\ pv.wrote # {}
    /\ pv.todo # {}
    /\ \A filename \in pv.wrote : Base(filename) \in pv.disk

\* C39: FetchVoices returns the cached catalog without any access when there
\* is one; otherwise the local voices.json when it exists and parses, without
\* a GET; otherwise it makes the remote GET. Every call that succeeds leaves
\* its catalog in the cache, every later call returns that catalog with no
\* access, and a call that fails leaves the cache unset.
C39_CacheThenLocalThenRemote ==
    LET LocalParses == pv.local.state = "file" /\ MarshalVoices(pv.local.doc).err = ""
    IN
    pv.fetches > 0 =>
        /\ ~pv.fetch.had.nil =>
               pv.fetch.io = {} /\ pv.fetch.err = "" /\ pv.fetch.voices = pv.fetch.had
        /\ (pv.fetch.had.nil /\ LocalParses) =>
               /\ "get" \notin pv.fetch.io
               /\ pv.fetch.err = ""
               /\ pv.fetch.voices = MarshalVoices(pv.local.doc).voices
        /\ (pv.fetch.had.nil /\ ~LocalParses) => "get" \in pv.fetch.io
        /\ pv.fetch.err = "" => (~pv.cachedVoices.nil /\ pv.cachedVoices = pv.fetch.voices)
        /\ (pv.loaded.yes /\ pv.loaded.at < pv.fetches) =>
               pv.fetch.io = {} /\ pv.fetch.voices = pv.loaded.voices
        /\ pv.fetch.err # "" => pv.cachedVoices.nil

\* C40: the transcript changes only when TranscriptionReceived or a
\* ReadyCompletion with addContent is handled, and then what was there stays
\* as the beginning of the new transcript; the handlers of j, k, w, b, Esc,
\* StatusChanged and DownloadModel leave the transcript and the recorder as
\* they were.
C40_TranscriptAppendOnly ==
    [][/\ content' # content =>
              /\ Len(content) <= Len(content')
              /\ SubSeq(content', 1, Len(content)) = content
              /\ \E m \in msgs :
                    \/ UpdateTranscriptionReceived(m)
                    \/ m.add /\ UpdateReadyCompletion(m)
       /\ (\/ KeyJ \/ KeyK \/ KeyW \/ KeyB \/ KeyEsc
           \/ \E m \in msgs : UpdateStatusChanged(m)
           \/ \E m \in msgs : UpdateDownloadModel(MaxDownloads, m)) =>
              /\ content' = content
              /\ UNCHANGED recVars]_vars

\* A key has moved the focus over a transcript that holds the turn's
\* transcription and its reply, after the recording of the turn.
C40_Witness ==
    /\ last.kind \in {"j", "k", "w", "b"}
    /\ uiPc = "idle"
    /\ CountAI(content) >= 1
    /\ Content # 0

====
